---- MODULE Spec2Model ----
(***************************************************************************)
(* Isaac Mission Dispatch: the dispatcher (RobotServer), its per-robot     *)
(* agents (class Robot of server.py), the mission behaviour tree, the      *)
(* object store with its watch stream, and the VDA5050 simulator robot of  *)
(* tests/client.py.  One robot name is modelled; agents of different       *)
(* robots share no state.  Mission names are the integers 1..NumMissions   *)
(* and the node with index i of mission_tree (0-based in the code) has     *)
(* id i+1 here; id 0 is the implicit "root" sequence.                      *)
(***************************************************************************)
EXTENDS Integers, Sequences, FiniteSets, TLC

\* ------------------------------------------------------------------ bounds
NumMissions == 2
MaxAgents == 2
MaxHeader == 4
MaxQueue == 2
MaxRobotUpdates == 1
MaxCancels == 2
MaxNodes == 2
MaxWaypoints == 2
MaxFailurePeriod == 2
MaxTeleops == 2
MaxRestarts == 1
MaxWrites == 3

Missions == 1..NumMissions
AgentIds == 1..MaxAgents

\* ------------------------------------------------------- pure conversions
IsDone(state) == state \in {"COMPLETED", "CANCELED", "FAILED"}

tree2mission_state(t) ==
    IF t = "SUCCESS" THEN "COMPLETED"
    ELSE IF t = "FAILURE" THEN "FAILED"
    ELSE IF t = "RUNNING" THEN "RUNNING"
    ELSE "PENDING"

mission2tree_state(s) ==
    IF s = "COMPLETED" THEN "SUCCESS"
    ELSE IF s = "RUNNING" THEN "RUNNING"
    ELSE IF s = "PENDING" THEN "INVALID"
    ELSE "FAILURE"

\* ------------------------------------------------------------ mission data
\* A mission node: kind, parent id (0 = root) and number of waypoints.
RouteNode(parent, size) ==
    [parent |-> parent, size |-> size, kind |-> "route", success |-> FALSE,
     url |-> 0]

\* The mission trees a user submits.
Trees == { <<RouteNode(0, 1)>>, <<RouteNode(0, 2), RouteNode(0, 1)>> }

\* A sequence or selector node, and a constant node.
ControlNode(kind, parent) ==
    [parent |-> parent, size |-> 0, kind |-> kind, success |-> FALSE,
     url |-> 0]

ConstantNode(parent, success) ==
    [parent |-> parent, size |-> 0, kind |-> "constant", success |-> success,
     url |-> 0]

\* Mission trees with control nodes: a sequence and a selector of two
\* routes, constants before a route, and a tree of three layers.
TreesNested ==
    { <<ControlNode("sequence", 0), ConstantNode(1, TRUE), RouteNode(1, 1)>>,
      <<ControlNode("sequence", 0), RouteNode(1, 1), RouteNode(1, 1)>>,
      <<ControlNode("selector", 0), ConstantNode(1, FALSE), RouteNode(1, 1)>>,
      <<ControlNode("selector", 0), RouteNode(1, 1), RouteNode(1, 1)>>,
      <<ControlNode("sequence", 0), ControlNode("selector", 1),
        RouteNode(2, 1), RouteNode(2, 1), RouteNode(1, 1)>> }

\* A notify node.  Its endpoint is named by the status code it answers
\* every POST with.
NotifyNode(parent, url) ==
    [parent |-> parent, size |-> 0, kind |-> "notify", success |-> FALSE,
     url |-> url]

StatusCodes == {200, 204, 404, 503}

\* Mission trees with a notify leaf next to a route, and of a notify leaf
\* alone.
TreesNotify ==
    { <<NotifyNode(0, url)>> : url \in StatusCodes }
    \cup { <<RouteNode(0, 1), NotifyNode(0, url)>> : url \in StatusCodes }

NodeIds(mt) == 1..Len(mt)

\* MissionStatusV1 of a freshly created mission.
NewMissionStatus(mt) ==
    [ state |-> "PENDING",
      current_node |-> 1,
      node_status |-> [n \in 0..Len(mt) |-> "PENDING"],
      error_msg |-> [n \in 0..Len(mt) |-> ""],
      failure_reason |-> "",
      start_timestamp |-> FALSE,
      end_timestamp |-> FALSE ]

\* A mission object (spec, status, lifecycle).  lifecycle "NONE" marks an
\* object that does not exist.
NoMission ==
    [ lifecycle |-> "NONE", needs_canceled |-> FALSE, mission_tree |-> <<>>,
      update_nodes |-> <<>>, status |-> NewMissionStatus(<<>>) ]

NewMission(mt) ==
    [ lifecycle |-> "ALIVE", needs_canceled |-> FALSE, mission_tree |-> mt,
      update_nodes |-> [n \in NodeIds(mt) |-> 0],
      status |-> NewMissionStatus(mt) ]

\* A robot object.
NoRobot ==
    [ state |-> "IDLE", lifecycle |-> "NONE", name |-> <<"test01">>,
      switch_teleop |-> FALSE, online |-> FALSE, pose |-> 0 ]

NewRobot == [NoRobot EXCEPT !.lifecycle = "ALIVE"]

\* ---------------------------------------------------------- behaviour tree
\* The tree of a mission: which mission nodes became behaviours, the status
\* of every behaviour and the current child of every composite (-1: None).
NoTree ==
    [ status |-> <<>>, built |-> FALSE, mission |-> 0, in_tree |-> {},
      cur |-> <<>> ]

IsComposite(mt, n) == n = 0 \/ mt[n].kind \in {"sequence", "selector"}

\* children of behaviour p, in insertion order
RECURSIVE ChildrenFrom(_, _, _, _)
ChildrenFrom(mt, inTree, p, i) ==
    IF i > Len(mt) THEN <<>>
    ELSE IF i \in inTree /\ mt[i].parent = p
         THEN <<i>> \o ChildrenFrom(mt, inTree, p, i + 1)
         ELSE ChildrenFrom(mt, inTree, p, i + 1)

Children(mt, inTree, p) == ChildrenFrom(mt, inTree, p, 1)

RECURSIVE IsUnder(_, _, _)
IsUnder(mt, n, p) ==
    IF n = p THEN TRUE ELSE IF n = 0 THEN FALSE ELSE IsUnder(mt, mt[n].parent, p)

\* Behaviour.stop(INVALID) on p: p and everything below it become INVALID
StopInvalid(mt, T, p) ==
    [T EXCEPT !.status = [n \in DOMAIN T.status |->
                            IF n \in T.in_tree \cup {0} /\ IsUnder(mt, n, p)
                            THEN "INVALID" ELSE T.status[n]],
              !.cur = [n \in DOMAIN T.cur |->
                            IF n \in T.in_tree \cup {0} /\ IsUnder(mt, n, p)
                            THEN -1 ELSE T.cur[n]]]

IndexOf(seq, x) == CHOOSE i \in 1..Len(seq) : seq[i] = x

LeafUpdate(nodeState) ==
    IF nodeState = "PENDING" THEN "RUNNING" ELSE mission2tree_state(nodeState)

\* One tick of behaviour n.  mt is the mission tree, ns the node_status of
\* the mission the leaves read, T the tree.
RECURSIVE TickNode(_, _, _, _)
RECURSIVE SequenceLoop(_, _, _, _, _, _)
RECURSIVE SelectorLoop(_, _, _, _, _, _, _)

\* a sequence that goes on to the next child while a child is RUNNING
SequenceLoopEager(mt, ns, T, n, ch, i) ==
    LET T1 == TickNode(mt, ns, T, ch[i]) IN
    IF T1.status[ch[i]] = "FAILURE"
    THEN [T1 EXCEPT !.status[n] = "FAILURE"]
    ELSE IF i < Len(ch)
         THEN SequenceLoop(mt, ns, [T1 EXCEPT !.cur[n] = ch[i + 1]], n, ch, i + 1)
         ELSE [T1 EXCEPT !.status[n] = T1.status[ch[i]]]

SequenceLoop(mt, ns, T, n, ch, i) ==
    LET T1 == TickNode(mt, ns, T, ch[i]) IN
    IF T1.status[ch[i]] # "SUCCESS"
    THEN [T1 EXCEPT !.status[n] = T1.status[ch[i]]]
    ELSE IF i < Len(ch)
         THEN SequenceLoop(mt, ns, [T1 EXCEPT !.cur[n] = ch[i + 1]], n, ch, i + 1)
         ELSE [T1 EXCEPT !.status[n] = "SUCCESS"]

RECURSIVE StopAfter(_, _, _, _)
StopAfter(mt, T, ch, i) ==
    IF i > Len(ch) THEN T ELSE StopAfter(mt, StopInvalid(mt, T, ch[i]), ch, i + 1)

SelectorLoop(mt, ns, T, n, ch, i, previous) ==
    LET T1 == TickNode(mt, ns, T, ch[i]) IN
    IF T1.status[ch[i]] \in {"SUCCESS", "RUNNING"}
    THEN LET T2 == [T1 EXCEPT !.cur[n] = ch[i], !.status[n] = T1.status[ch[i]]]
         IN IF previous # ch[i] THEN StopAfter(mt, T2, ch, i + 1) ELSE T2
    ELSE IF i < Len(ch)
         THEN SelectorLoop(mt, ns, T1, n, ch, i + 1, previous)
         ELSE [T1 EXCEPT !.status[n] = "FAILURE", !.cur[n] = ch[i]]

TickNode(mt, ns, T, n) ==
    IF ~IsComposite(mt, n)
    THEN [T EXCEPT !.status[n] =
              IF mt[n].kind = "constant"
              THEN (IF mt[n].success THEN "SUCCESS" ELSE "FAILURE")
              ELSE LeafUpdate(ns[n])]
    ELSE
      LET ch == Children(mt, T.in_tree, n)
          fresh == T.status[n] # "RUNNING"
          T0 == IF fresh
                THEN [StopAfter(mt, T, ch, 1) EXCEPT
                        !.cur[n] = IF ch = <<>> THEN -1 ELSE ch[1]]
                ELSE T
      IN IF ch = <<>>
         THEN [T0 EXCEPT !.cur[n] = -1, !.status[n] = "SUCCESS"]
         ELSE IF n = 0 \/ mt[n].kind = "sequence"
              THEN SequenceLoop(mt, ns, T0, n, ch,
                                IF fresh THEN 1 ELSE IndexOf(ch, T0.cur[n]))
              ELSE SelectorLoop(mt, ns, T0, n, ch, 1, T0.cur[n])

\* Behaviour.tip(): the deepest current behaviour, -1 for None
RECURSIVE Tip(_, _, _)
Tip(mt, T, n) ==
    IF IsComposite(mt, n) /\ T.cur[n] # -1 THEN Tip(mt, T, T.cur[n])
    ELSE IF T.status[n] # "INVALID" THEN n ELSE -1

current_node(mt, T) == Tip(mt, T, 0)

\* MissionBehaviorTree.post_tick: control and constant behaviours write their
\* status into the node_status of the mission
RECURSIVE PostTickFrom(_, _, _, _)
PostTickFrom(mt, T, ns, n) ==
    IF n > Len(mt) THEN ns
    ELSE PostTickFrom(mt, T,
           IF n \in T.in_tree /\ mt[n].kind \in {"sequence", "constant", "selector"}
           THEN [ns EXCEPT ![n] = tree2mission_state(T.status[n])] ELSE ns,
           n + 1)

post_tick(mt, T, ns) == PostTickFrom(mt, T, ns, 1)

\* MissionBehaviorTree.create_behavior_tree.  ok is its return value; bad
\* marks a parent that cannot take children (the call raises).
RECURSIVE CreateFrom(_, _, _)
CreateFrom(mt, inTree, i) ==
    IF i > Len(mt) THEN [ok |-> TRUE, bad |-> FALSE, in_tree |-> inTree]
    ELSE IF ~(mt[i].parent = 0 \/ mt[i].parent \in inTree)
         THEN [ok |-> FALSE, bad |-> FALSE, in_tree |-> inTree]
    ELSE IF mt[i].kind \in {"sequence", "route", "constant", "selector", "action"}
         THEN IF ~IsComposite(mt, mt[i].parent)
              THEN [ok |-> FALSE, bad |-> TRUE, in_tree |-> inTree]
              ELSE CreateFrom(mt, inTree \cup {i}, i + 1)
         ELSE CreateFrom(mt, inTree, i + 1)

create_behavior_tree(m, mt) ==
    LET r == CreateFrom(mt, {}, 1) IN
    [ ok |-> r.ok, bad |-> r.bad,
      tree |-> [ built |-> TRUE, mission |-> m, in_tree |-> r.in_tree,
                 status |-> [n \in 0..Len(mt) |->
                               IF n = 0 /\ ~r.ok THEN "FAILURE" ELSE "INVALID"],
                 cur |-> [n \in 0..Len(mt) |-> -1] ] ]

\* ------------------------------------------------------------ agent state
\* One Robot object of server.py.  robot_object with lifecycle "NONE" is
\* None; mobj holds the mission objects the agent has references to and
\* missions the keys of the ordered _missions dictionary.  timers is the set
\* of missions with a pending _wait_mission_timeout task, robot_online_task
\* tells whether a _check_robot_online task is pending.  crashed marks a run
\* loop ended by an exception.
NewAgent ==
    [ tree |-> NoTree,
      spawned |-> FALSE, alive |-> TRUE, crashed |-> FALSE, messages |-> <<>>,
      robot_object |-> NoRobot,
      missions |-> <<>>, mobj |-> [m \in Missions |-> NoMission],
      current_mission |-> 0, current_instant_actions |-> <<>>,
      header_id |-> 0,
      updating_mission_from_api |-> FALSE,
      timers |-> {}, robot_online_task |-> FALSE ]

\* The handlers below are functions of a world w: the agent a that runs the
\* handler, the store, the registry reg of the dispatcher (the registered
\* agent, 0 for none), the messages out published to the robot and the
\* history g of what was published.  A handler that needs the result of a
\* call more than once hands it to an operator for the rest of its body.
Crash(w) == [w EXCEPT !.a.crashed = TRUE]

Remove(seq, x) == SelectSeq(seq, LAMBDA y : y # x)

InSeq(seq, x) == \E i \in 1..Len(seq) : seq[i] = x

\* DatabaseClient.update_status / delete: the store answers 400 for an
\* object that does not exist and the client raises.
update_status_mission(w, m) ==
    IF w.a.crashed THEN w
    ELSE IF w.store.missions[m].lifecycle = "NONE" THEN Crash(w)
    ELSE [w EXCEPT !.store.missions[m].status = w.a.mobj[m].status]

update_status_robot(w) ==
    IF w.a.crashed THEN w
    ELSE IF w.store.robot.lifecycle = "NONE" THEN Crash(w)
    ELSE [w EXCEPT !.store.robot.state = w.a.robot_object.state,
                   !.store.robot.online = w.a.robot_object.online,
                   !.store.robot.pose = w.a.robot_object.pose]

delete_mission(w, m) ==
    IF w.a.crashed THEN w
    ELSE IF w.store.missions[m].lifecycle = "NONE" THEN Crash(w)
    ELSE [w EXCEPT !.store.missions[m] = NoMission]

\* RobotServer.delete_pending_mission for a mission object with the given
\* lifecycle; DeletesPending is its return value.
DeletesPending(lifecycle) == lifecycle = "PENDING_DELETE"

delete_pending_mission(w, m, lifecycle) ==
    IF DeletesPending(lifecycle) THEN delete_mission(w, m) ELSE w

\* RobotServer.delete_robot
delete_robot(w) ==
    IF w.a.crashed THEN w
    ELSE IF w.reg = 0 THEN Crash(w)
    ELSE IF w.a.robot_object.lifecycle = "NONE" THEN w
    ELSE IF w.store.robot.lifecycle = "NONE" THEN Crash(w)
    ELSE [w EXCEPT !.store.robot = NoRobot, !.reg = 0]

_set_robot_state(w, state) ==
    IF w.a.crashed THEN w
    ELSE IF w.a.robot_object.lifecycle = "NONE" \/ state = w.a.robot_object.state
    THEN w
    ELSE update_status_robot([w EXCEPT !.a.robot_object.state = state])

\* the return value of _set_mission_state
SetsMissionState(w, state) ==
    w.a.current_mission # 0
    /\ state # w.a.mobj[w.a.current_mission].status.state

\* the timestamps _set_mission_state records for the new state
StampMission(w, m, state) ==
    IF state = "RUNNING"
    THEN IF ~w.a.mobj[m].status.start_timestamp
         THEN _set_robot_state(
                [w EXCEPT !.a.mobj[m].status.start_timestamp = TRUE], "ON_TASK")
         ELSE w
    ELSE IF IsDone(state)
    THEN [w EXCEPT !.a.mobj[m].status.end_timestamp = TRUE]
    ELSE w

_set_mission_state(w, state) ==
    IF w.a.crashed \/ ~SetsMissionState(w, state) THEN w
    ELSE update_status_mission(
           StampMission([w EXCEPT
                           !.a.mobj[w.a.current_mission].status.state = state,
                           !.a.mobj[w.a.current_mission].status.node_status[0] = state],
                        w.a.current_mission, state),
           w.a.current_mission)

set_mission_node_state(w, n, state) ==
    IF w.a.crashed \/ w.a.current_mission = 0 THEN w
    ELSE [w EXCEPT !.a.mobj[w.a.current_mission].status.node_status[n] = state]

\* mqtt publish of one message, with the history of published headers
Publish(w, msg) ==
    [w EXCEPT !.out = Append(@, msg),
              !.g.mono = @ /\ msg.headerId > w.g.last_header,
              !.g.last_header = msg.headerId,
              !.g.ordered = IF msg.type = "order" THEN @ \cup {msg.mission} ELSE @,
              !.g.sent = IF msg.type = "order"
                         THEN {x \in @ : x[1] # msg.mission \/ x[2] # msg.node}
                              \cup {<<msg.mission, msg.node, msg.size>>}
                         ELSE @]

\* An instant action: actionId "<mission>-instantaction-n<n>" (mission 0 for
\* the teleop actions, whose id has no mission part) and actionType.
InstantAction(m, n, type) == [mission |-> m, n |-> n, actionType |-> type]

_send_instant_action(w, ia) ==
    IF w.a.crashed THEN w
    ELSE [Publish(w, [type |-> "instantActions", headerId |-> w.a.header_id,
                      mission |-> ia.mission, node |-> ia.n, size |-> 0,
                      actionType |-> ia.actionType])
            EXCEPT !.a.header_id = @ + 1]

\* the current behaviour of the tree, -1 for None
TipOf(w) == current_node(w.a.mobj[w.a.tree.mission].mission_tree, w.a.tree)

\* update_mission_from_behavior_tree: the tree is ticked, then the status of
\* the mission follows the tree.  before is the world before the tick.
Ticked(w) ==
    [w EXCEPT !.a.tree =
        TickNode(w.a.mobj[w.a.tree.mission].mission_tree,
                 w.a.mobj[w.a.tree.mission].status.node_status, w.a.tree, 0)]

PostTicked(w) ==
    [w EXCEPT !.a.mobj[w.a.tree.mission].status.node_status =
        post_tick(w.a.mobj[w.a.tree.mission].mission_tree, w.a.tree,
                  w.a.mobj[w.a.tree.mission].status.node_status)]

FollowTree(before, w) ==
    IF SetsMissionState(w, tree2mission_state(w.a.tree.status[0]))
    THEN _set_mission_state(w, tree2mission_state(w.a.tree.status[0]))
    ELSE IF before.a.mobj[w.a.current_mission].status
              # w.a.mobj[w.a.current_mission].status
    THEN update_status_mission(w, w.a.current_mission)
    ELSE w

AfterTick(before, w) ==
    IF TipOf(w) <= 0 THEN Crash(w)
    ELSE FollowTree(before,
           [w EXCEPT !.a.mobj[w.a.current_mission].status.current_node = TipOf(w)])

update_mission_from_behavior_tree(w) ==
    IF w.a.crashed \/ ~w.a.tree.built \/ w.a.current_mission = 0 THEN w
    ELSE AfterTick(w, PostTicked(Ticked(w)))

\* _process_notify_node: the POST loop for an endpoint that answers with
\* status code url, after retries transient answers; posts counts the POSTs
NotifyRetries == 3

TransientCodes == {408, 425, 429, 500, 502, 503, 504}

RECURSIVE NotifyLoop(_, _)
NotifyLoop(url, retries) ==
    IF retries <= NotifyRetries
    THEN IF url = 200
         THEN [state |-> "COMPLETED", posts |-> 1]
         ELSE IF url \in TransientCodes
         THEN [NotifyLoop(url, retries + 1) EXCEPT !.posts = @ + 1]
         ELSE [state |-> "FAILED", posts |-> 1]
    ELSE [state |-> "FAILED", posts |-> 0]

_process_notify_node(w, n) ==
    LET m == w.a.current_mission
        r == NotifyLoop(w.a.mobj[m].mission_tree[n].url, 0)
    IN update_mission_from_behavior_tree(
         set_mission_node_state(
           [set_mission_node_state(w, n, "RUNNING")
              EXCEPT !.g.posts[m] = @ + r.posts],
           n, r.state))

\* VDA5050Node.from_robot and from_pose2d, VDA5050Edge.from_mission_order:
\* the ids "<mission>-n<node>-s<sequence>" and "<mission>-e<sequence>" are
\* the tuples of their parts; waypoint j of a route is the pose j
from_robot(robot_object, m, i) ==
    [nodeId |-> <<m, i, 0>>, sequenceId |-> 0,
     nodePosition |-> [robot |-> TRUE, pose |-> robot_object.pose]]

from_pose2d(j, m, sequence, i) ==
    [nodeId |-> <<m, i, sequence>>, sequenceId |-> sequence,
     nodePosition |-> [robot |-> FALSE, pose |-> j]]

from_mission_order(m, sequence, i) ==
    [edgeId |-> <<m, sequence>>, sequenceId |-> sequence,
     startNodeId |-> <<m, i, sequence - 1>>,
     endNodeId |-> <<m, i, sequence + 1>>]

\* an order whose nodes and edges are numbered one after the other
from_route_dense(size, robot_object, m, i) ==
    [orderId |-> <<m, i>>, orderUpdateId |-> 0,
     nodes |-> <<from_robot(robot_object, m, i)>>
               \o [j \in 1..size |-> from_pose2d(j, m, j, i)],
     edges |-> [e \in 1..size |-> from_mission_order(m, e, i)]]

\* VDA5050Order.from_route for a route of size waypoints (enumerate and
\* range count from 0, the sequences of the model from 1); from_action
\* gives the same first node and no edge
from_route(size, robot_object, m, i) ==
    [orderId |-> <<m, i>>, orderUpdateId |-> 0,
     nodes |-> <<from_robot(robot_object, m, i)>>
               \o [j \in 1..size |-> from_pose2d(j, m, (j - 1) * 2 + 2, i)],
     edges |-> [e \in 1..size |-> from_mission_order(m, (e - 1) * 2 + 1, i)]]

\* lines 153-192 of _send_order, tip being the current behaviour
SendOrderFor(w, m, tip) ==
    IF tip = 0
       \/ w.a.mobj[w.a.tree.mission].mission_tree[tip].kind \notin {"route", "action"}
    THEN w
    ELSE IF tip > Len(w.a.mobj[m].mission_tree) THEN Crash(w)
    ELSE IF w.a.mobj[m].mission_tree[tip].kind = "notify"
    THEN _process_notify_node(w, tip)
    ELSE IF w.a.mobj[m].mission_tree[tip].kind \notin {"route", "action"}
    THEN Crash(w)
    ELSE set_mission_node_state(
           [Publish(w, [type |-> "order", headerId |-> w.a.header_id,
                        mission |-> m, node |-> tip,
                        size |-> w.a.mobj[m].mission_tree[tip].size,
                        actionType |-> "",
                        order |-> from_route(w.a.mobj[m].mission_tree[tip].size,
                                             w.a.robot_object, m, tip)])
              EXCEPT !.a.header_id = @ + 1],
           tip, "RUNNING")

_send_order(w) ==
    IF w.a.crashed THEN w
    ELSE IF w.a.robot_object.lifecycle \notin {"ALIVE", "PENDING_DELETE"} THEN w
    ELSE IF w.a.current_mission = 0 \/ ~w.a.tree.built THEN w
    ELSE IF TipOf(w) = -1 THEN w
    ELSE SendOrderFor(w, w.a.current_mission, TipOf(w))

\* _delete_robot_object
_delete_robot_object(w) ==
    IF w.a.crashed \/ w.a.robot_object.lifecycle = "NONE" THEN w
    ELSE delete_robot([w EXCEPT !.a.robot_object.lifecycle = "DELETED",
                                !.a.alive = FALSE,
                                !.a.robot_online_task = FALSE])

RECURSIVE get_next_mission(_)

\* lines 127-131 of _try_start_mission
ArmAndSend(w) ==
    IF w.a.crashed THEN w
    ELSE _send_order([w EXCEPT !.a.timers = @ \cup {w.a.current_mission}])

\* a start that takes every leaf of the mission as not done yet
StartTreeAfresh(w, c) ==
    IF c.bad THEN Crash([w EXCEPT !.a.tree = c.tree])
    ELSE IF ~c.ok
    THEN get_next_mission(_set_mission_state(
           [w EXCEPT !.a.tree = c.tree,
                     !.a.mobj[w.a.current_mission].status.failure_reason =
                         "Given parent does not exist"],
           "FAILED"))
    ELSE ArmAndSend(update_mission_from_behavior_tree(
           [w EXCEPT !.a.tree = c.tree,
                     !.a.mobj[w.a.current_mission].status.node_status =
                         NewMissionStatus(
                           w.a.mobj[w.a.current_mission].mission_tree).node_status]))

\* a start that stays on the mission whose tree could not be created
StartTreeStuck(w, c) ==
    IF c.bad THEN Crash([w EXCEPT !.a.tree = c.tree])
    ELSE IF ~c.ok
    THEN _set_mission_state(
           [w EXCEPT !.a.tree = c.tree,
                     !.a.mobj[w.a.current_mission].status.failure_reason =
                         "Given parent does not exist"],
           "FAILED")
    ELSE ArmAndSend(update_mission_from_behavior_tree([w EXCEPT !.a.tree = c.tree]))

\* lines 117-131 of _try_start_mission, c being the tree that was created
StartTree(w, c) ==
    IF c.bad THEN Crash([w EXCEPT !.a.tree = c.tree])
    ELSE IF ~c.ok
    THEN get_next_mission(_set_mission_state(
           [w EXCEPT !.a.tree = c.tree,
                     !.a.mobj[w.a.current_mission].status.failure_reason =
                         "Given parent does not exist"],
           "FAILED"))
    ELSE ArmAndSend(update_mission_from_behavior_tree([w EXCEPT !.a.tree = c.tree]))

\* a start that does not look at the robot object
StartCurrentAnyway(w) ==
    IF w.a.current_mission = 0 THEN w
    ELSE StartTree(w, create_behavior_tree(
                        w.a.current_mission,
                        w.a.mobj[w.a.current_mission].mission_tree))

\* lines 108-131 of _try_start_mission
StartCurrent(w) ==
    IF w.a.current_mission = 0 THEN w
    ELSE IF w.a.robot_object.lifecycle # "ALIVE" THEN w
    ELSE StartTree(w, create_behavior_tree(
                        w.a.current_mission,
                        w.a.mobj[w.a.current_mission].mission_tree))

_try_start_mission(w) ==
    IF w.a.crashed THEN w
    ELSE StartCurrent(IF w.a.current_mission = 0 /\ w.a.missions # <<>>
                      THEN [w EXCEPT !.a.current_mission = Head(w.a.missions)]
                      ELSE w)

\* lines 489-495 of get_next_mission
DeleteOrStart(w) ==
    IF w.a.robot_object.lifecycle = "PENDING_DELETE"
    THEN _delete_robot_object(w)
    ELSE _try_start_mission(w)

get_next_mission(w) ==
    IF w.a.crashed \/ w.a.current_mission = 0 THEN w
    ELSE IF ~InSeq(w.a.missions, w.a.current_mission) THEN Crash(w)
    ELSE DeleteOrStart([w EXCEPT !.a.missions = Remove(@, w.a.current_mission),
                                 !.a.current_mission = 0])

post_mission_completion(w) ==
    IF w.a.crashed \/ w.a.current_mission = 0 THEN w
    ELSE get_next_mission(_set_robot_state(
           delete_pending_mission(w, w.a.current_mission,
                                  w.a.mobj[w.a.current_mission].lifecycle),
           "IDLE"))

\* _update_mission_from_api: the updated mission object and the returned
\* cancel_current_node
CancelCurrentNode(mission, message) ==
    /\ mission.needs_canceled = message.needs_canceled
    /\ mission.lifecycle = message.lifecycle
    /\ \E n \in DOMAIN message.update_nodes :
          /\ message.update_nodes[n] # 0
          /\ n \in DOMAIN mission.mission_tree
          /\ mission.status.node_status[n] = "RUNNING"

\* MissionNodeType in the order of the enumeration, and MissionNodeV1.type
\* of a node with the given fields set: the first type that is set.
MissionNodeType ==
    <<"selector", "sequence", "route", "move", "action", "notify", "constant">>

type(dict_set) ==
    MissionNodeType[CHOOSE x \in 1..Len(MissionNodeType) :
                      /\ MissionNodeType[x] \in dict_set
                      /\ \A y \in 1..(x - 1) : MissionNodeType[y] \notin dict_set]

\* n.route = route: the node has its own field and route set
SetRoute(node, size) ==
    [node EXCEPT !.kind = type({@, "route"}), !.size = size]

_update_mission_from_api(mission, message) ==
    IF mission.needs_canceled # message.needs_canceled
    THEN [mission EXCEPT !.needs_canceled = message.needs_canceled]
    ELSE IF mission.lifecycle # message.lifecycle
    THEN [mission EXCEPT !.lifecycle = message.lifecycle]
    ELSE [mission EXCEPT !.mission_tree =
            [n \in DOMAIN mission.mission_tree |->
               IF n \in DOMAIN message.update_nodes /\ message.update_nodes[n] # 0
               THEN SetRoute(mission.mission_tree[n], message.update_nodes[n])
               ELSE mission.mission_tree[n]]]

\* an instant action is published and kept until the robot reports it
SendAndKeep(w, ia) ==
    [_send_instant_action(w, ia) EXCEPT
        !.a.current_instant_actions = IF InSeq(@, ia) THEN @ ELSE Append(@, ia)]

\* lines 237-251 of _on_mission_change: the current mission was updated
CancelRunning(w, name, cancel) ==
    IF w.a.mobj[name].needs_canceled \/ cancel
    THEN SendAndKeep(w, InstantAction(name, w.a.header_id, "cancelOrder"))
    ELSE w

MarkDeleted(mission) ==
    IF mission.lifecycle = "PENDING_DELETE"
    THEN [mission EXCEPT !.needs_canceled = TRUE] ELSE mission

\* an update that leaves the queue as it is
KeepQueued(w, name) == w

\* lines 256-263 of _on_mission_change: a queued mission was updated
Forget(w, name) ==
    IF w.a.crashed THEN w ELSE [w EXCEPT !.a.missions = Remove(@, name)]

UpdateQueued(w, name, message) ==
    IF DeletesPending(message.lifecycle)
    THEN Forget(delete_mission(w, name), name)
    ELSE IF message.needs_canceled
    THEN Forget(update_status_mission(
                  [w EXCEPT !.a.mobj[name].status.state = "CANCELED"], name),
                name)
    ELSE w

_on_mission_change(w, name, message) ==
    IF ~InSeq(w.a.missions, name)
    THEN IF w.a.current_mission = 0
         THEN _try_start_mission([w EXCEPT !.a.missions = Append(@, name),
                                           !.a.mobj[name] = message])
         ELSE [w EXCEPT !.a.missions = Append(@, name), !.a.mobj[name] = message]
    ELSE IF w.a.current_mission = name
    THEN CancelRunning(
           [w EXCEPT !.a.mobj[name] =
               MarkDeleted(_update_mission_from_api(w.a.mobj[name], message))],
           name, CancelCurrentNode(w.a.mobj[name], message))
    ELSE UpdateQueued(
           [w EXCEPT !.a.mobj[name] =
               _update_mission_from_api(w.a.mobj[name], message)],
           name, message)

TeleopMismatch(switch_teleop, state) ==
    (switch_teleop /\ state # "TELEOP") \/ (~switch_teleop /\ state = "TELEOP")

\* lines 276-284 of _on_robot_change
DeleteOnRequest(w, message) ==
    IF message.lifecycle = "PENDING_DELETE"
    THEN _delete_robot_object(IF message.state = "ON_TASK"
                              THEN _set_mission_state(w, "FAILED") ELSE w)
    ELSE w

\* lines 287-298 of _on_robot_change
SwitchTeleop(w, message) ==
    IF w.a.crashed THEN w
    ELSE IF TeleopMismatch(message.switch_teleop, w.a.robot_object.state)
    THEN SendAndKeep(w, InstantAction(0, w.a.header_id,
                                      IF message.switch_teleop THEN "startTeleop"
                                      ELSE "stopTeleop"))
    ELSE w

ReplaceRobot(w, message) ==
    IF w.a.crashed THEN w ELSE [w EXCEPT !.a.robot_object = message]

_on_robot_change(w, message) ==
    IF w.a.robot_object.lifecycle = "NONE"
    THEN _try_start_mission([w EXCEPT !.a.robot_object = message,
                                      !.a.header_id = 0,
                                      !.a.robot_online_task = TRUE])
    ELSE ReplaceRobot(SwitchTeleop(DeleteOnRequest(w, message), message), message)

\* --------------------------------------------------------- robot feedback
\* A VDA5050 state message: orderId "<mission>-n<node>" (mission 0: the
\* empty orderId), the last node reached, the action states and the errors.
ActionId(x) == [mission |-> x.mission, n |-> x.n, actionType |-> x.actionType]

InstantTypes == {"cancelOrder", "startTeleop", "stopTeleop"}

\* the action states handle_instant_action looks at: from the last one back
\* to the first that is no instant action
RECURSIVE InstantSuffix(_)
InstantSuffix(states) ==
    IF states = <<>> THEN <<>>
    ELSE IF states[Len(states)].actionType \notin InstantTypes THEN <<>>
    ELSE Append(InstantSuffix(SubSeq(states, 1, Len(states) - 1)),
                states[Len(states)])

Reverse(seq) == [i \in 1..Len(seq) |-> seq[Len(seq) + 1 - i]]

\* the finished instant actions, in the order handle_instant_action
\* returns them
FinishedInstantActions(cia, message) ==
    LET scanned == Reverse(InstantSuffix(message.actionStates))
        fin == SelectSeq(scanned, LAMBDA x :
                   x.actionStatus = "FINISHED" /\ InSeq(cia, ActionId(x)))
    IN [i \in 1..Len(fin) |-> ActionId(fin[i])]

RECURSIVE Resend(_, _)
Resend(w, ias) ==
    IF ias = <<>> THEN w ELSE Resend(_send_instant_action(w, Head(ias)), Tail(ias))

handle_instant_action(w, message) ==
    IF w.a.crashed THEN w
    ELSE
      LET scanned == InstantSuffix(message.actionStates)
          finished == FinishedInstantActions(w.a.current_instant_actions, message)
          remaining == SelectSeq(w.a.current_instant_actions,
                                 LAMBDA ia : ~InSeq(finished, ia))
          missing == SelectSeq(remaining, LAMBDA ia :
                        ~\E i \in 1..Len(scanned) : ActionId(scanned[i]) = ia)
      IN Resend([w EXCEPT !.a.current_instant_actions = remaining], missing)

update_robot_state(w, finished) ==
    IF w.a.crashed \/ finished = <<>> THEN w
    ELSE IF finished[1].actionType = "startTeleop"
    THEN _set_robot_state(w, "TELEOP")
    ELSE _set_robot_state(w, IF w.a.current_mission # 0 THEN "ON_TASK" ELSE "IDLE")

\* update_mission_node_state: NodeStateFrom is the value it returns
\* get_mission_errors: only the errors of level FATAL count; the leaf an
\* error refers to receives the description of the error
HasAnyError(errors) == errors # {}

HasFatal(errors) == \E e \in errors : e.errorLevel = "FATAL"

RECURSIVE get_mission_errors(_, _)
get_mission_errors(w, errors) ==
    IF errors = {} THEN w
    ELSE LET e == CHOOSE x \in errors : TRUE
             m == w.a.current_mission
             w1 == IF e.errorLevel = "FATAL"
                      /\ e.node \in DOMAIN w.a.mobj[m].mission_tree
                   THEN [w EXCEPT !.a.mobj[m].status.error_msg[e.node] =
                                      e.errorDescription,
                                  !.a.mobj[m].status.failure_reason =
                                      e.errorDescription]
                   ELSE w
         IN get_mission_errors(w1, errors \ {e})

NodeStateFrom(w, message, finished) ==
    LET m == w.a.current_mission
        n == message.orderId.node
        node == w.a.mobj[m].mission_tree[n]
        current_order_node_id == IF message.lastNodeId = "" THEN 0
                                 ELSE message.lastNodeSequenceId + 2
    IN IF HasFatal(message.errors) THEN "FAILED"
       ELSE IF \E i \in 1..Len(finished) : finished[i].actionType = "cancelOrder"
       THEN "CANCELED"
       ELSE IF node.kind = "route" /\ current_order_node_id = node.size * 2 + 2
       THEN "COMPLETED"
       ELSE w.a.mobj[m].status.node_status[n]

update_mission_node_state(w, message, finished) ==
    IF w.a.crashed \/ w.a.current_mission = 0 THEN w
    ELSE IF message.orderId.node \notin DOMAIN w.a.mobj[w.a.current_mission].mission_tree
    THEN Crash(w)
    ELSE
      set_mission_node_state(get_mission_errors(w, message.errors),
                             message.orderId.node,
                             NodeStateFrom(w, message, finished))

\* lines 642-649 of update_mission_state
AfterNodeState(w, node_state) ==
    IF node_state = "CANCELED"
    THEN IF w.a.mobj[w.a.current_mission].needs_canceled
         THEN _set_mission_state(w, "CANCELED")
         ELSE [w EXCEPT !.a.updating_mission_from_api = TRUE]
    ELSE update_mission_from_behavior_tree(w)

update_mission_state(w, message, finished) ==
    IF w.a.crashed \/ w.a.current_mission = 0
       \/ w.a.robot_object.lifecycle = "NONE" \/ ~w.a.tree.built
    THEN w
    ELSE IF message.orderId.node \notin DOMAIN w.a.mobj[w.a.current_mission].mission_tree
    THEN Crash(w)
    ELSE
      AfterNodeState(update_mission_node_state(w, message, finished),
                     NodeStateFrom(w, message, finished))

\* lines 347-434 of _on_client_message: the robot object is refreshed from
\* the feedback and written to the store
SetOnline(w) ==
    IF w.a.crashed THEN w
    ELSE IF w.a.robot_object.lifecycle # "DELETED"
    THEN update_status_robot([w EXCEPT !.a.robot_object.online = TRUE])
    ELSE [w EXCEPT !.a.robot_object.online = TRUE]

RefreshRobot(w, message) ==
    IF w.a.robot_object.lifecycle = "NONE" THEN w
    ELSE LET w1 == [w EXCEPT !.a.robot_online_task = TRUE,
                             !.a.robot_object.pose = message.agvPosition]
         IN SetOnline(IF w1.a.robot_object.state = "CHARGING"
                      THEN _set_robot_state(w1, "IDLE")
                      ELSE w1)

\* lines 456-473 of _on_client_message
ClearUpdating(w) ==
    IF w.a.crashed THEN w ELSE [w EXCEPT !.a.updating_mission_from_api = FALSE]

ResendUpdated(w) ==
    IF ~w.a.crashed /\ w.a.updating_mission_from_api
    THEN ClearUpdating(_send_order(w)) ELSE w

SendOnTipChange(w, prev_child_node) ==
    IF w.a.crashed THEN w
    ELSE IF TipOf(w) = -1 THEN Crash(w)
    ELSE IF prev_child_node # TipOf(w) THEN _send_order(w)
    ELSE w

CompleteIfDone(w) ==
    IF w.a.crashed THEN w
    ELSE IF IsDone(w.a.mobj[w.a.current_mission].status.state)
    THEN post_mission_completion(w)
    ELSE w

AdvanceMission(w, message, finished) ==
    IF w.a.crashed THEN w
    ELSE IF TipOf(w) = -1 THEN Crash(w)
    ELSE CompleteIfDone(
           SendOnTipChange(
             ResendUpdated(update_mission_state(w, message, finished)),
             TipOf(w)))

\* a handling that takes every feedback as one of the current mission
FeedbackForAnyOrder(w, message, finished) ==
    IF w.a.crashed THEN w
    ELSE IF w.a.current_mission = 0 \/ ~w.a.tree.built THEN w
    ELSE IF IsDone(w.a.mobj[w.a.current_mission].status.state)
    THEN get_next_mission(_set_robot_state(w, "IDLE"))
    ELSE AdvanceMission(w, message, finished)

\* lines 439-473 of _on_client_message
FeedbackForMission(w, message, finished) ==
    IF w.a.crashed THEN w
    ELSE IF w.a.current_mission = 0 \/ ~w.a.tree.built THEN w
    ELSE IF IsDone(w.a.mobj[w.a.current_mission].status.state)
    THEN get_next_mission(_set_robot_state(w, "IDLE"))
    ELSE IF message.orderId.mission # w.a.current_mission
    THEN _send_order(w)
    ELSE AdvanceMission(w, message, finished)

\* lines 436-473 of _on_client_message
FeedbackForActions(w, message) ==
    FeedbackForMission(
        update_robot_state(
            handle_instant_action(w, message),
            FinishedInstantActions(w.a.current_instant_actions, message)),
        message,
        FinishedInstantActions(w.a.current_instant_actions, message))

_on_client_message(w, message) ==
    FeedbackForActions(RefreshRobot(w, message), message)

\* ----------------------------------------------------------------- timers
\* A task of the event loop that raises ends alone: the run loop of the
\* agent is not affected.
InTask(w, w1) == [w1 EXCEPT !.a.crashed = w.a.crashed]

\* the body of _wait_mission_timeout after the sleep
TimedOut(w, name) ==
    IF w.a.current_mission = 0 \/ w.a.robot_object.lifecycle = "NONE" THEN w
    ELSE IF name = w.a.current_mission /\ w.a.mobj[name].status.state = "RUNNING"
    THEN IF DeletesPending(w.a.mobj[name].lifecycle)
         THEN delete_mission(w, name)
         ELSE _set_robot_state(
                _set_mission_state(
                  [w EXCEPT !.a.mobj[name].status.failure_reason =
                                "Mission timed out"],
                  "FAILED"),
                "IDLE")
    ELSE w

_wait_mission_timeout(w, name) ==
    InTask(w, TimedOut([w EXCEPT !.a.timers = @ \ {name}, !.a.crashed = FALSE],
                       name))

\* the body of _check_robot_online after the sleep
WentOffline(w) ==
    IF ~w.a.robot_object.online THEN w
    ELSE IF w.a.robot_object.lifecycle # "DELETED"
    THEN update_status_robot([w EXCEPT !.a.robot_object.online = FALSE])
    ELSE [w EXCEPT !.a.robot_object.online = FALSE]

_check_robot_online(w) ==
    InTask(w, WentOffline([w EXCEPT !.a.robot_online_task = FALSE,
                                    !.a.crashed = FALSE]))

\* -------------------------------------------------------- simulator robot
\* The robot of tests/client.py.  order.present = FALSE is "order is None".
\* An order built from a route of k waypoints has the nodes 0..k with the
\* sequence ids 0, 2, .., 2k.
FailurePeriods == 0..MaxFailurePeriod

NewSim(failure_period, fail_as_warning) ==
    [ order |-> [present |-> FALSE, mission |-> 0, node |-> 0, size |-> 0],
      orderId |-> [mission |-> 0, node |-> 0],
      lastNodeId |-> "", lastNodeSequenceId |-> 0,
      current_node |-> 0,
      actionStates |-> <<>>,
      errors |-> {}, fail_as_warning |-> fail_as_warning,
      cancel |-> [triggered |-> FALSE, mission |-> 0, n |-> 0],
      pause_order |-> FALSE, agvPosition |-> 0,
      time_to_next_failure |-> 0, failure_period |-> failure_period ]

\* the state message publish_state sends
StateMessage(s) ==
    [ orderId |-> s.orderId, lastNodeId |-> s.lastNodeId,
      lastNodeSequenceId |-> s.lastNodeSequenceId,
      actionStates |-> s.actionStates, agvPosition |-> s.agvPosition,
      errors |-> s.errors ]

\* execute_order; arrived tells whether move() reaches the target node.
\* failure is the error appended when the failure period is reached, its
\* reference naming the mission node of the order; after a WARNING the
\* robot keeps going.
execute_order(s, arrived) ==
    LET fails == s.time_to_next_failure = 0 /\ s.failure_period > 0
        failure == [errorLevel |-> IF s.fail_as_warning THEN "WARNING" ELSE "FATAL",
                    node |-> s.order.node,
                    errorDescription |-> "Failure period reached"]
        s0 == IF fails THEN [s EXCEPT !.errors = @ \cup {failure}] ELSE s
    IN
    IF ~s.order.present THEN s
    ELSE IF s.current_node >= s.order.size + 1 THEN s
    ELSE IF HasFatal(s.errors) THEN s
    ELSE IF fails /\ ~s.fail_as_warning
    THEN [s0 EXCEPT !.order.present = FALSE]
    ELSE IF s0.cancel.triggered
    THEN [s0 EXCEPT !.actionStates =
                     [i \in 1..Len(s0.actionStates) |->
                        IF s0.actionStates[i].mission = s0.cancel.mission
                           /\ s0.actionStates[i].n = s0.cancel.n
                        THEN [s0.actionStates[i] EXCEPT !.actionStatus = "FINISHED"]
                        ELSE IF s0.actionStates[i].actionStatus # "FINISHED"
                        THEN [s0.actionStates[i] EXCEPT !.actionStatus = "FAILED"]
                        ELSE s0.actionStates[i]],
                   !.cancel.triggered = FALSE,
                   !.order.present = FALSE]
    ELSE IF s0.pause_order THEN s0
    ELSE IF s0.current_node > 0 /\ ~arrived THEN s0
    ELSE
      LET s1 == IF s0.current_node > 0
                THEN [s0 EXCEPT !.lastNodeSequenceId = 2 * s0.current_node,
                                !.lastNodeId = "n",
                                !.agvPosition = s0.current_node]
                ELSE s0
          s2 == [s1 EXCEPT !.current_node = @ + 1]
      IN IF s2.current_node = s2.order.size + 1
         THEN [s2 EXCEPT !.order.present = FALSE] ELSE s2

\* send_order
send_order(s, msg) ==
    LET new_order == ~s.order.present
                     \/ s.order.mission # msg.mission \/ s.order.node # msg.node
        s1 == [s EXCEPT !.order = [present |-> TRUE, mission |-> msg.mission,
                                   node |-> msg.node, size |-> msg.size],
                        !.orderId = [mission |-> msg.mission, node |-> msg.node]]
    IN IF new_order
       THEN [s1 EXCEPT !.time_to_next_failure =
                          IF s.failure_period > 0
                          THEN (@ - 1) % s.failure_period ELSE @,
                       !.errors = {},
                       !.actionStates = <<>>,
                       !.current_node = 0,
                       !.lastNodeId = ""]
       ELSE s1

\* send_instant_action; PublishesOnAction tells whether it publishes a state
KnownAction(s, msg) ==
    \E i \in 1..Len(s.actionStates) :
        s.actionStates[i].mission = msg.mission /\ s.actionStates[i].n = msg.node

PublishesOnAction(s, msg) ==
    ~KnownAction(s, msg) /\ msg.actionType \in {"startTeleop", "stopTeleop"}

send_instant_action(s, msg) ==
    IF KnownAction(s, msg) THEN s
    ELSE
      LET st == [mission |-> msg.mission, n |-> msg.node,
                 actionType |-> msg.actionType, actionStatus |-> "WAITING"]
      IN IF msg.actionType = "cancelOrder"
         THEN [s EXCEPT !.actionStates = Append(@, st),
                        !.cancel = [triggered |-> TRUE, mission |-> msg.mission,
                                    n |-> msg.node]]
         ELSE [s EXCEPT !.actionStates =
                          Append(@, [st EXCEPT !.actionStatus = "FINISHED"]),
                        !.pause_order = (msg.actionType = "startTeleop")]

\* ------------------------------------------------------------ the system
VARIABLES
    agents,    \* the Robot objects the dispatcher has created, by incarnation
    reg,       \* RobotServer._robots[name]: the registered agent, 0 for none
    store,     \* the rows of the robot and mission tables
    watch,     \* notifications the two watchers have not yet read
    toRobot,   \* order and instantActions messages on their way to the robot
    sim,       \* the simulator robot
    g,         \* history: the headers published, the missions ordered, the
               \* waypoints of the last order of each leaf, the rewrites
               \* requested for leaves not ordered yet
    user       \* what the API users have done so far

vars == <<agents, reg, store, watch, toRobot, sim, g, user>>

InitOf(sims) ==
    /\ agents = [i \in AgentIds |-> NewAgent]
    /\ reg = 0
    /\ store = [robot |-> NoRobot, missions |-> [m \in Missions |-> NoMission]]
    /\ watch = [robot |-> <<>>, mission |-> <<>>,
                client |-> [listening |-> FALSE, listed |-> FALSE,
                            notes |-> <<>>, events |-> <<>>,
                            changes |-> 0, own |-> 0]]
    /\ toRobot = <<>>
    /\ sim \in sims
    /\ g = [last_header |-> -1, mono |-> TRUE, ordered |-> {}, sent |-> {},
            early |-> {},
            refused |-> {}, acked |-> {}, received |-> <<>>, awaiting |-> {},
            completed |-> {}, dropped |-> {},
            posts |-> [m \in Missions |-> 0],
            restart |-> [done |-> {}, running |-> {}, completed |-> {}]]
    /\ user = [created |-> {}, robots |-> 0, robot_updates |-> 0, cancels |-> 0,
               teleops |-> 0, restarts |-> 0, writes |-> 0]

\* the robot of the tests reports a failure as a FATAL error unless it is
\* started with fail_as_warning
Init == InitOf({NewSim(p, FALSE) : p \in FailurePeriods})

World(i) == [a |-> agents[i], reg |-> reg, store |-> store, out |-> toRobot, g |-> g]

\* the nodes the store has as COMPLETED
CompletedIn(st) ==
    UNION { {<<m, n>> : n \in {k \in DOMAIN st.missions[m].status.node_status :
                                  st.missions[m].status.node_status[k] = "COMPLETED"}} :
            m \in {k \in Missions : st.missions[k].lifecycle # "NONE"} }

Commit(i, w) ==
    /\ agents' = [agents EXCEPT ![i] = w.a]
    /\ reg' = w.reg
    /\ store' = w.store
    /\ toRobot' = w.out
    /\ g' = [w.g EXCEPT !.completed = @ \cup CompletedIn(w.store)]

\* ------------------------------------------------------------- API users
Notify(kind, name, lifecycle) ==
    watch' = [watch EXCEPT ![kind] =
                Append(@, [name |-> name, lifecycle |-> lifecycle,
                           listed |-> FALSE,
                           obj |-> IF kind = "robot" THEN NoRobot ELSE NoMission])]

\* POST /robot
UserCreateRobot ==
    /\ store.robot.lifecycle = "NONE"
    /\ user.robots < MaxAgents
    /\ store' = [store EXCEPT !.robot = NewRobot]
    /\ user' = [user EXCEPT !.robots = @ + 1]
    /\ Notify("robot", 0, "ALIVE")
    /\ UNCHANGED <<agents, reg, toRobot, sim, g>>

\* PUT /robot/{name}: a spec update that leaves switch_teleop as it is
UserUpdateRobot ==
    /\ store.robot.lifecycle # "NONE"
    /\ user.robot_updates < MaxRobotUpdates
    /\ user' = [user EXCEPT !.robot_updates = @ + 1]
    /\ Notify("robot", 0, store.robot.lifecycle)
    /\ UNCHANGED <<agents, reg, store, toRobot, sim, g>>

\* POST /robot/{name}/teleop: RobotObjectV1.teleop
can_switch_teleop(state) ==
    state \in {"IDLE", "ON_TASK", "TELEOP", "MAP_DEPLOYMENT"}

UserSwitchTeleop(start) ==
    /\ store.robot.lifecycle # "NONE"
    /\ can_switch_teleop(store.robot.state)
    /\ user.teleops < MaxTeleops
    /\ store' = [store EXCEPT !.robot.switch_teleop = start]
    /\ user' = [user EXCEPT !.teleops = @ + 1]
    /\ Notify("robot", 0, store.robot.lifecycle)
    /\ UNCHANGED <<agents, reg, toRobot, sim, g>>

\* DELETE /robot/{name}
UserDeleteRobot ==
    /\ store.robot.lifecycle = "ALIVE"
    /\ store' = [store EXCEPT !.robot.lifecycle = "PENDING_DELETE"]
    /\ Notify("robot", 0, "PENDING_DELETE")
    /\ UNCHANGED <<agents, reg, toRobot, sim, g, user>>

\* POST /mission
UserCreateMission(m, mt) ==
    /\ m \notin user.created
    /\ \A k \in Missions : k < m => k \in user.created
    /\ store' = [store EXCEPT !.missions[m] = NewMission(mt)]
    /\ user' = [user EXCEPT !.created = @ \cup {m}]
    /\ Notify("mission", m, "ALIVE")
    /\ UNCHANGED <<agents, reg, toRobot, sim, g>>

\* POST /mission/{name}/cancel
UserCancelMission(m) ==
    /\ store.missions[m].lifecycle # "NONE"
    /\ ~IsDone(store.missions[m].status.state)
    /\ user.cancels < MaxCancels
    /\ store' = [store EXCEPT !.missions[m].needs_canceled = TRUE]
    /\ user' = [user EXCEPT !.cancels = @ + 1]
    /\ Notify("mission", m, store.missions[m].lifecycle)
    /\ UNCHANGED <<agents, reg, toRobot, sim, g>>

\* DELETE /mission/{name}
UserDeleteMission(m) ==
    /\ store.missions[m].lifecycle = "ALIVE"
    /\ store' = [store EXCEPT !.missions[m].lifecycle = "PENDING_DELETE"]
    /\ Notify("mission", m, "PENDING_DELETE")
    /\ UNCHANGED <<agents, reg, toRobot, sim, g, user>>

\* POST /mission/{name}/update with a route of size waypoints for node n
UserUpdateMission(m, n, size) ==
    /\ store.missions[m].lifecycle # "NONE"
    /\ ~IsDone(store.missions[m].status.state)
    /\ n \in DOMAIN store.missions[m].mission_tree
    /\ ~(store.missions[m].status.state = "RUNNING"
         /\ IsDone(store.missions[m].status.node_status[n]))
    /\ \A k \in DOMAIN store.missions[m].update_nodes :
          store.missions[m].update_nodes[k] = 0
    /\ store' = [store EXCEPT !.missions[m].update_nodes =
                    [k \in DOMAIN store.missions[m].mission_tree |->
                        IF k = n THEN size ELSE 0]]
    /\ Notify("mission", m, store.missions[m].lifecycle)
    /\ g' = [g EXCEPT !.early = IF \E x \in g.sent : x[1] = m /\ x[2] = n
                                THEN @ ELSE @ \cup {<<m, n, size>>}]
    /\ UNCHANGED <<agents, reg, toRobot, sim, user>>

\* ------------------------------------------------------------ dispatcher
\* The agent a message for the robot goes to: the registered one, or a new
\* Robot object if none is registered (0 if no further one is modelled).
Spawned == {i \in AgentIds : agents[i].spawned}

Target == IF reg # 0 THEN reg
          ELSE IF Cardinality(Spawned) < MaxAgents
          THEN Cardinality(Spawned) + 1 ELSE 0

send_message(ags, i, message) ==
    [ags EXCEPT ![i].spawned = TRUE, ![i].messages = Append(@, message)]

\* PostgresWatcher.watch reads one notification of the mission table and
\* _handle_mission_changes handles the object it yields.  The notification
\* a delete by the dispatcher itself causes yields a DELETED object, which
\* is ignored, and is left out.
WatchMission ==
    /\ watch.mission # <<>>
    /\ LET note == Head(watch.mission)
           row == IF note.listed THEN note.obj ELSE store.missions[note.name]
           mission == [row EXCEPT !.lifecycle = note.lifecycle]
       IN /\ watch' = [watch EXCEPT !.mission = Tail(@)]
          /\ IF row.lifecycle = "NONE"
             THEN UNCHANGED <<agents, reg, store>>
             ELSE IF IsDone(mission.status.state)
             THEN /\ store' = IF DeletesPending(mission.lifecycle)
                              THEN [store EXCEPT !.missions[note.name] = NoMission]
                              ELSE store
                  /\ UNCHANGED <<agents, reg>>
             ELSE /\ Target # 0
                  /\ Len(agents[Target].messages) < MaxQueue
                  /\ agents' = send_message(agents, Target,
                                  [type |-> "mission", name |-> note.name,
                                   obj |-> mission])
                  /\ reg' = Target
                  /\ UNCHANGED store
    /\ UNCHANGED <<toRobot, sim, g, user>>

\* the same for the robot table and _handle_robot_changes
WatchRobot ==
    /\ watch.robot # <<>>
    /\ LET note == Head(watch.robot)
           row == IF note.listed THEN note.obj ELSE store.robot
           robot == [row EXCEPT !.lifecycle = note.lifecycle]
       IN /\ watch' = [watch EXCEPT !.robot = Tail(@)]
          /\ IF row.lifecycle = "NONE"
             THEN UNCHANGED <<agents, reg>>
             ELSE /\ Target # 0
                  /\ Len(agents[Target].messages) < MaxQueue
                  /\ agents' = send_message(agents, Target,
                                  [type |-> "robot", name |-> 0, obj |-> robot])
                  /\ reg' = Target
    /\ UNCHANGED <<store, toRobot, sim, g, user>>

\* ------------------------------------------------- a client of the store
\* A client of the database watches the robot table (test_watch): the
\* watcher of its request first executes LISTEN, then yields the rows of
\* the table, then one object for each notification, except those that
\* carry the publisher_id of the request.  A name is the sequence of the
\* words that single spaces separate in it, and so is the payload of a
\* notification.  events are the objects yielded, each with the publisher
\* of its notification and the name of the row that was written (of);
\* changes and own count the notifications sent since LISTEN without and
\* with that publisher_id.
_notify(publisher, name, lifecycle) == <<publisher>> \o name \o <<lifecycle>>

ClientListen ==
    /\ ~watch.client.listening
    /\ watch' = [watch EXCEPT !.client.listening = TRUE]
    /\ UNCHANGED <<agents, reg, store, toRobot, sim, g, user>>

ClientList ==
    /\ watch.client.listening /\ ~watch.client.listed
    /\ watch' = [watch EXCEPT
                   !.client.listed = TRUE,
                   !.client.events =
                       IF store.robot.lifecycle = "NONE" THEN @
                       ELSE Append(@, [name |-> store.robot.name,
                                       lifecycle |-> store.robot.lifecycle,
                                       pose |-> store.robot.pose,
                                       publisher |-> "listing",
                                       of |-> store.robot.name])]
    /\ UNCHANGED <<agents, reg, store, toRobot, sim, g, user>>

\* the next notification: payload.split(" ", 2), then the row of that name
\* is read; a lifecycle that is no member of ObjectLifecycleV1 raises, and
\* the watcher connects, listens and lists again
ClientDeliver ==
    /\ watch.client.listed
    /\ watch.client.notes # <<>>
    /\ LET note == Head(watch.client.notes)
           publisher == note.payload[1]
           obj_name == <<note.payload[2]>>
           lifecycle == SubSeq(note.payload, 3, Len(note.payload))
           found == store.robot.lifecycle # "NONE" /\ store.robot.name = obj_name
       IN watch' =
            IF publisher = "own"
            THEN [watch EXCEPT !.client.notes = Tail(@)]
            ELSE IF ~found
            THEN [watch EXCEPT
                    !.client.notes = Tail(@),
                    !.client.events =
                        Append(@, [name |-> obj_name, lifecycle |-> "DELETED",
                                   pose |-> 0, publisher |-> publisher,
                                   of |-> note.of])]
            ELSE IF lifecycle \notin {<<"ALIVE">>, <<"PENDING_DELETE">>, <<"DELETED">>}
            THEN [watch EXCEPT !.client.notes = <<>>, !.client.listed = FALSE]
            ELSE [watch EXCEPT
                    !.client.notes = Tail(@),
                    !.client.events =
                        Append(@, [name |-> obj_name, lifecycle |-> lifecycle[1],
                                   pose |-> store.robot.pose,
                                   publisher |-> publisher, of |-> note.of])]
    /\ UNCHANGED <<agents, reg, store, toRobot, sim, g, user>>

\* A request of the DatabaseClient of the watching client ("own") or of
\* another client ("other"); name is the name a create gives the robot.
\* create and update_status send the publisher_id of the client; delete
\* sends none, and the server takes a new uuid ("none").  A request for a
\* row that does not exist is answered 400 and changes nothing.
ClientWrite(client, op, name) ==
    /\ user.writes < MaxWrites
    /\ user' = [user EXCEPT !.writes = @ + 1]
    /\ (op = "create") = (store.robot.lifecycle = "NONE")
    /\ store' = [store EXCEPT !.robot =
                    IF op = "create" THEN [NewRobot EXCEPT !.name = name]
                    ELSE IF op = "update_status" THEN [@ EXCEPT !.pose = 1]
                    ELSE IF op = "delete" THEN [@ EXCEPT !.lifecycle = "PENDING_DELETE"]
                    ELSE NoRobot]
    /\ LET publisher == IF op \in {"create", "update_status"} THEN client ELSE "none"
           lifecycle == IF op = "hard_delete" THEN "DELETED"
                        ELSE store'.robot.lifecycle
           written == IF op = "create" THEN name ELSE store.robot.name
       IN watch' = IF ~watch.client.listening THEN watch
                   ELSE [watch EXCEPT
                           !.client.notes =
                               Append(@, [payload |-> _notify(publisher, written,
                                                              lifecycle),
                                          of |-> written]),
                           !.client.changes = IF publisher = "own" THEN @ ELSE @ + 1,
                           !.client.own = IF publisher = "own" THEN @ + 1 ELSE @]
    /\ UNCHANGED <<agents, reg, toRobot, sim, g>>

\* The dispatcher is stopped and started again with the store intact: the
\* agents, their timer tasks and the notifications not yet read are gone,
\* and each new watcher first yields every row of its table as it is now
\* (SELECT *, in either order of the names).
RECURSIVE ListMissions(_)
ListMissions(m) ==
    IF m > NumMissions THEN <<>>
    ELSE IF store.missions[m].lifecycle = "NONE" THEN ListMissions(m + 1)
    ELSE <<[name |-> m, lifecycle |-> store.missions[m].lifecycle,
            listed |-> TRUE, obj |-> store.missions[m]]>>
         \o ListMissions(m + 1)

Restart(backwards) ==
    /\ user.restarts < MaxRestarts
    /\ user' = [user EXCEPT !.restarts = @ + 1]
    /\ agents' = [i \in AgentIds |-> NewAgent]
    /\ reg' = 0
    /\ watch' = [client |-> watch.client,
                 robot |-> IF store.robot.lifecycle = "NONE" THEN <<>>
                            ELSE <<[name |-> 0, lifecycle |-> store.robot.lifecycle,
                                    listed |-> TRUE, obj |-> store.robot]>>,
                 mission |-> IF backwards THEN Reverse(ListMissions(1))
                             ELSE ListMissions(1)]
    /\ g' = [g EXCEPT !.restart =
                [done |-> {m \in Missions :
                             /\ store.missions[m].lifecycle # "NONE"
                             /\ IsDone(store.missions[m].status.state)},
                 running |-> {m \in Missions :
                                /\ store.missions[m].lifecycle # "NONE"
                                /\ store.missions[m].status.state = "RUNNING"},
                 completed |-> CompletedIn(store)]]
    /\ UNCHANGED <<store, toRobot, sim>>

\* ----------------------------------------------------------------- agent
\* Robot.run handles the next message of its queue
Handle(w, message) ==
    IF message.type = "robot" THEN _on_robot_change(w, message.obj)
    ELSE IF message.type = "mission"
    THEN _on_mission_change(w, message.name, message.obj)
    ELSE _on_client_message(w, message.obj)

\* What the history g records of one handled message.  CancelsPending: the
\* message carries a cancel request for a mission the store has as PENDING.
CancelsPending(w, msg) ==
    /\ msg.type = "mission"
    /\ msg.obj.needs_canceled
    /\ w.store.missions[msg.name].lifecycle # "NONE"
    /\ w.store.missions[msg.name].status.state = "PENDING"

\* the feedback reports the cancelOrder sent for mission m as FINISHED
ReportsCancel(w, msg, m) ==
    /\ msg.type = "state"
    /\ \E k \in 1..Len(msg.obj.actionStates) :
          /\ msg.obj.actionStates[k].mission = m
          /\ msg.obj.actionStates[k].actionType = "cancelOrder"
          /\ msg.obj.actionStates[k].actionStatus = "FINISHED"
          /\ InSeq(w.a.current_instant_actions, ActionId(msg.obj.actionStates[k]))

\* AcksCancel: the agent has seen needs_canceled for its current mission and
\* the feedback reports the cancelOrder sent for it as FINISHED.
AcksCancel(w, msg) ==
    /\ w.a.current_mission # 0
    /\ w.a.mobj[w.a.current_mission].needs_canceled
    /\ ReportsCancel(w, msg, w.a.current_mission)

\* Rewrites: the message rewrites leaf n of the current mission while that
\* leaf is RUNNING and nothing else of the mission has changed.
Rewrites(w, msg, n) ==
    /\ msg.type = "mission"
    /\ w.a.current_mission = msg.name
    /\ InSeq(w.a.missions, msg.name)
    /\ w.a.mobj[msg.name].needs_canceled = msg.obj.needs_canceled
    /\ w.a.mobj[msg.name].lifecycle = msg.obj.lifecycle
    /\ n \in DOMAIN msg.obj.update_nodes
    /\ n \in DOMAIN w.a.mobj[msg.name].mission_tree
    /\ msg.obj.update_nodes[n] # 0
    /\ w.a.mobj[msg.name].status.node_status[n] = "RUNNING"

Rewritten(w, msg) ==
    IF msg.type = "mission"
    THEN {<<msg.name, n>> : n \in {k \in DOMAIN msg.obj.update_nodes :
                                     Rewrites(w, msg, k)}}
    ELSE {}

\* DropsQueued: the message tells the agent that a mission of its queue
\* that is not its current mission is PENDING_DELETE.
DropsQueued(w, msg) ==
    /\ msg.type = "mission"
    /\ msg.obj.lifecycle = "PENDING_DELETE"
    /\ InSeq(w.a.missions, msg.name)
    /\ w.a.current_mission # msg.name

\* the messages a handler has published, w being the world before it
Published(w, w1) == SubSeq(w1.out, Len(w.out) + 1, Len(w1.out))

OrdersLeaf(out, m, n) ==
    \E k \in 1..Len(out) :
        out[k].type = "order" /\ out[k].mission = m /\ out[k].node = n

Recorded(w, msg, w1) ==
    [w1 EXCEPT
       !.g.refused = IF CancelsPending(w, msg) THEN @ \cup {msg.name} ELSE @,
       !.g.acked = IF AcksCancel(w, msg) THEN @ \cup {w.a.current_mission} ELSE @,
       !.g.dropped = IF DropsQueued(w, msg) THEN @ \cup {msg.name} ELSE @,
       !.g.received = IF msg.type = "mission" /\ ~InSeq(@, msg.name)
                      THEN Append(@, msg.name) ELSE @,
       !.g.awaiting =
           {x \in @ : ~OrdersLeaf(Published(w, w1), x[1], x[2])}
           \cup Rewritten(w, msg)]

AgentStep(i) ==
    /\ agents[i].spawned /\ agents[i].alive /\ ~agents[i].crashed
    /\ agents[i].messages # <<>>
    /\ agents[i].header_id < MaxHeader
    /\ Commit(i, Recorded(World(i), Head(agents[i].messages),
                          Handle([World(i) EXCEPT !.a.messages = Tail(@)],
                                 Head(agents[i].messages))))
    /\ UNCHANGED <<watch, sim, user>>

\* the sleep of a _wait_mission_timeout task ends
MissionTimeout(i, m) ==
    /\ m \in agents[i].timers
    /\ Commit(i, _wait_mission_timeout(World(i), m))
    /\ UNCHANGED <<watch, sim, user>>

\* the sleep of the _check_robot_online task ends
RobotOffline(i) ==
    /\ agents[i].robot_online_task
    /\ Commit(i, _check_robot_online(World(i)))
    /\ UNCHANGED <<watch, sim, user>>

\* ----------------------------------------------------------------- robot
\* _handle_mqtt_messages: a state message goes to the registered agent
Feedback(ags, s) ==
    IF reg = 0 THEN ags
    ELSE send_message(ags, reg, [type |-> "state", name |-> 0, obj |-> StateMessage(s)])

CanFeedback == IF reg = 0 THEN TRUE ELSE Len(agents[reg].messages) < MaxQueue

\* one period of the simulator: update()
RobotTick(arrived) ==
    /\ CanFeedback
    /\ sim' = execute_order(sim, arrived)
    /\ agents' = Feedback(agents, sim')
    /\ UNCHANGED <<reg, store, watch, toRobot, g, user>>

\* the robot receives the next message published to it
RobotReceive ==
    /\ toRobot # <<>>
    /\ CanFeedback
    /\ LET msg == Head(toRobot) IN
       /\ toRobot' = Tail(toRobot)
       /\ IF msg.type = "order"
          THEN /\ sim' = send_order(sim, msg)
               /\ agents' = Feedback(agents, sim')
          ELSE /\ sim' = send_instant_action(sim, msg)
               /\ agents' = IF PublishesOnAction(sim, msg)
                            THEN Feedback(agents, sim') ELSE agents
    /\ UNCHANGED <<reg, store, watch, g, user>>

\* -------------------------------------------------------- specifications
\* One mission is created and cancelled; the timers may fire at any time.
Next ==
    \/ UserCreateRobot
    \/ \E mt \in Trees : UserCreateMission(1, mt)
    \/ UserCancelMission(1)
    \/ WatchMission
    \/ WatchRobot
    \/ \E i \in AgentIds : AgentStep(i)
    \/ \E i \in AgentIds, m \in Missions : MissionTimeout(i, m)
    \/ \E i \in AgentIds : RobotOffline(i)
    \/ \E arrived \in BOOLEAN : RobotTick(arrived)
    \/ RobotReceive

Spec == Init /\ [][Next]_vars

\* a robot that never reports a failure
InitReliable == Init /\ sim.failure_period = 0

\* Missions of one route leaf are created and cancelled and queue up at the
\* agent; the mission timers may fire at any time.
NextQueue ==
    \/ UserCreateRobot
    \/ \E m \in Missions : UserCreateMission(m, <<RouteNode(0, 1)>>)
    \/ \E m \in Missions : UserCancelMission(m)
    \/ WatchMission
    \/ WatchRobot
    \/ \E i \in AgentIds : AgentStep(i)
    \/ \E i \in AgentIds, m \in Missions : MissionTimeout(i, m)
    \/ \E arrived \in BOOLEAN : RobotTick(arrived)
    \/ RobotReceive

SpecQueue == InitReliable /\ [][NextQueue]_vars

\* The robot is deleted and created again while missions of one route leaf
\* are created.
NextRobots ==
    \/ UserCreateRobot
    \/ UserDeleteRobot
    \/ \E m \in Missions : UserCreateMission(m, <<RouteNode(0, 1)>>)
    \/ WatchMission
    \/ WatchRobot
    \/ \E i \in AgentIds : AgentStep(i)
    \/ \E arrived \in BOOLEAN : RobotTick(arrived)
    \/ RobotReceive

SpecRobots == InitReliable /\ [][NextRobots]_vars

\* Missions of one route leaf are created and deleted; the mission timers
\* may fire at any time.
NextDeletes ==
    \/ UserCreateRobot
    \/ \E m \in Missions : UserCreateMission(m, <<RouteNode(0, 1)>>)
    \/ \E m \in Missions : UserDeleteMission(m)
    \/ WatchMission
    \/ WatchRobot
    \/ \E i \in AgentIds : AgentStep(i)
    \/ \E i \in AgentIds, m \in Missions : MissionTimeout(i, m)
    \/ \E arrived \in BOOLEAN : RobotTick(arrived)
    \/ RobotReceive

SpecDeletes == InitReliable /\ [][NextDeletes]_vars

\* One mission is created and its route leaves are rewritten; the robot
\* object is updated; the heartbeat timer may fire at any time.
NextUpdates ==
    \/ UserCreateRobot
    \/ UserUpdateRobot
    \/ \E mt \in Trees : UserCreateMission(1, mt)
    \/ \E n \in 1..MaxNodes, size \in 1..MaxWaypoints : UserUpdateMission(1, n, size)
    \/ WatchMission
    \/ WatchRobot
    \/ \E i \in AgentIds : AgentStep(i)
    \/ \E i \in AgentIds : RobotOffline(i)
    \/ \E arrived \in BOOLEAN : RobotTick(arrived)
    \/ RobotReceive

SpecUpdates == InitReliable /\ [][NextUpdates]_vars

\* One mission with control nodes is created; the robot may fail orders and
\* the mission timer may fire at any time.
NextTrees ==
    \/ UserCreateRobot
    \/ \E mt \in TreesNested : UserCreateMission(1, mt)
    \/ WatchMission
    \/ WatchRobot
    \/ \E i \in AgentIds : AgentStep(i)
    \/ \E i \in AgentIds, m \in Missions : MissionTimeout(i, m)
    \/ \E arrived \in BOOLEAN : RobotTick(arrived)
    \/ RobotReceive

SpecTrees == Init /\ [][NextTrees]_vars

\* Missions of one or two route leaves are created and the dispatcher is
\* restarted.
NextRestart ==
    \/ UserCreateRobot
    \/ \E m \in Missions, mt \in Trees : UserCreateMission(m, mt)
    \/ \E backwards \in BOOLEAN : Restart(backwards)
    \/ WatchMission
    \/ WatchRobot
    \/ \E i \in AgentIds : AgentStep(i)
    \/ \E arrived \in BOOLEAN : RobotTick(arrived)
    \/ RobotReceive

SpecRestart == InitReliable /\ [][NextRestart]_vars

\* The database alone: clients write the robot table and one of them
\* watches it.
NextWatch ==
    \/ ClientListen
    \/ ClientList
    \/ ClientDeliver
    \/ \E client \in {"own", "other"},
          op \in {"create", "update_status", "delete", "hard_delete"},
          name \in {<<"carter00">>, <<"carter", "00">>} :
          ClientWrite(client, op, name)

SpecWatch == Init /\ [][NextWatch]_vars

\* The missions of SpecTrees, the robot reporting its failures as FATAL
\* errors or as warnings.
SpecErrors ==
    /\ InitOf({NewSim(p, fw) : p \in FailurePeriods, fw \in BOOLEAN})
    /\ [][NextTrees]_vars

\* The user switches the robot to teleoperation and back while one mission
\* is created.
NextTeleop ==
    \/ UserCreateRobot
    \/ \E start \in BOOLEAN : UserSwitchTeleop(start)
    \/ \E mt \in Trees : UserCreateMission(1, mt)
    \/ WatchMission
    \/ WatchRobot
    \/ \E i \in AgentIds : AgentStep(i)
    \/ \E i \in AgentIds, m \in Missions : MissionTimeout(i, m)
    \/ \E arrived \in BOOLEAN : RobotTick(arrived)
    \/ RobotReceive

SpecTeleop == InitReliable /\ [][NextTeleop]_vars

\* One mission with a notify leaf is created for a robot that never fails.
NextNotify ==
    \/ UserCreateRobot
    \/ \E mt \in TreesNotify : UserCreateMission(1, mt)
    \/ WatchMission
    \/ WatchRobot
    \/ \E i \in AgentIds : AgentStep(i)
    \/ \E i \in AgentIds, m \in Missions : MissionTimeout(i, m)
    \/ \E arrived \in BOOLEAN : RobotTick(arrived)
    \/ RobotReceive

SpecNotify == InitReliable /\ [][NextNotify]_vars

\* Mission trees the API accepts (every parent appears earlier in the list)
\* whose behaviour tree has no node for a parent: a route under a notify
\* node, which gets no behaviour.  A single route is the tree that can be
\* built.
TreesUnbuilt ==
    { <<RouteNode(0, 1)>>, <<NotifyNode(0, 200), RouteNode(1, 1)>> }

\* Missions whose tree may lack a parent are created for a robot that never
\* fails.
NextUnbuilt ==
    \/ UserCreateRobot
    \/ \E m \in Missions, mt \in TreesUnbuilt : UserCreateMission(m, mt)
    \/ WatchMission
    \/ WatchRobot
    \/ \E i \in AgentIds : AgentStep(i)
    \/ \E i \in AgentIds, m \in Missions : MissionTimeout(i, m)
    \/ \E arrived \in BOOLEAN : RobotTick(arrived)
    \/ RobotReceive

SpecUnbuilt == InitReliable /\ [][NextUnbuilt]_vars

\* Two missions of one route are created for a robot that may stay silent:
\* the watchers, the agents' handlers and the mission timers always run to
\* their end (the event loop runs every task that is ready), the robot's
\* steps need not.
NextSilent ==
    \/ UserCreateRobot
    \/ \E m \in Missions : UserCreateMission(m, <<RouteNode(0, 1)>>)
    \/ WatchMission
    \/ WatchRobot
    \/ \E i \in AgentIds : AgentStep(i)
    \/ \E i \in AgentIds, m \in Missions : MissionTimeout(i, m)
    \/ \E arrived \in BOOLEAN : RobotTick(arrived)
    \/ RobotReceive

\* the enabling conditions of AgentStep and of MissionTimeout
AgentReady ==
    \E i \in AgentIds :
        /\ agents[i].spawned /\ agents[i].alive /\ ~agents[i].crashed
        /\ agents[i].messages # <<>>
        /\ agents[i].header_id < MaxHeader

TimerPending == \E i \in AgentIds : agents[i].timers # {}

\* Weak fairness of the agents' steps and of the timers is written out with
\* these enabling conditions.
SpecSilent ==
    /\ InitReliable /\ [][NextSilent]_vars
    /\ WF_vars(WatchMission) /\ WF_vars(WatchRobot)
    /\ \/ []<>(~AgentReady)
       \/ []<><<\E i \in AgentIds : AgentStep(i)>>_vars
    /\ \/ []<>(~TimerPending)
       \/ []<><<\E i \in AgentIds, m \in Missions : MissionTimeout(i, m)>>_vars

\* Mission trees with a constant, a notify node and a route: a new route is
\* posted for any of their nodes.
TreesMixed ==
    { <<RouteNode(0, 1), NotifyNode(0, 200)>>,
      <<ControlNode("sequence", 0), ConstantNode(1, TRUE), RouteNode(1, 1)>> }

NextMixed ==
    \/ UserCreateRobot
    \/ \E mt \in TreesMixed : UserCreateMission(1, mt)
    \/ \E n \in 1..MaxNodes, size \in 1..MaxWaypoints : UserUpdateMission(1, n, size)
    \/ WatchMission
    \/ WatchRobot
    \/ \E i \in AgentIds : AgentStep(i)
    \/ \E arrived \in BOOLEAN : RobotTick(arrived)
    \/ RobotReceive

SpecMixed == InitReliable /\ [][NextMixed]_vars

\* ------------------------------------------------------------- properties
Exists(m) == store.missions[m].lifecycle # "NONE"

StateOf(m) == store.missions[m].status.state

\* agent i takes the next message off its queue, a feedback of the robot
Handles(i) ==
    /\ agents[i].messages # <<>>
    /\ agents'[i].messages = Tail(agents[i].messages)

HandlesFeedback(i) == Handles(i) /\ Head(agents[i].messages).type = "state"

\* the sleep of the timeout task of mission m ends
TimerFires(i, m) == m \in agents[i].timers /\ m \notin agents'[i].timers

\* the sleep of the heartbeat task ends
HeartbeatFires(i) ==
    /\ agents[i].robot_online_task /\ ~agents'[i].robot_online_task
    /\ agents'[i].alive

\* C1: at every point of every execution at most one mission of the robot
\* has state RUNNING in the store.
C1_OneRunning ==
    Cardinality({m \in Missions : Exists(m) /\ StateOf(m) = "RUNNING"}) <= 1

\* C2: the states written to the store for a mission only move forward:
\* PENDING, then RUNNING, then one terminal state, and a terminal state is
\* never replaced by a different state.
Forward(s, t) ==
    \/ s = t
    \/ s = "PENDING"
    \/ s = "RUNNING" /\ IsDone(t)

C2_StatesForward ==
    [][\A m \in Missions :
          Exists(m) /\ store'.missions[m].lifecycle # "NONE"
          => Forward(StateOf(m), store'.missions[m].status.state)]_vars

\* C3: once the agent has seen needs_canceled for its current mission and a
\* feedback has reported the cancelOrder sent for it as FINISHED, the state
\* of the mission is CANCELED, from the end of that handling on.
C3_CancelSticks ==
    \A m \in g.acked : Exists(m) => StateOf(m) = "CANCELED"

\* C4: the handling of a cancel request for a mission that is PENDING writes
\* CANCELED for it to the store, and no order for that mission is published.
C4_CancelPending ==
    [][/\ \A m \in g.refused' \ g.refused :
             store'.missions[m].status.state = "CANCELED"
       /\ g.refused' \cap g.ordered' = {}]_vars

\* C5: a robot is deleted from the store, and its agent ends, only when no
\* mission of the robot has state RUNNING.
C5_DeleteWhenIdle ==
    [][(\/ store.robot.lifecycle # "NONE" /\ store'.robot.lifecycle = "NONE"
        \/ \E i \in AgentIds : agents[i].alive /\ ~agents'[i].alive)
       => \A m \in Missions :
             ~(store'.missions[m].lifecycle # "NONE"
               /\ store'.missions[m].status.state = "RUNNING")]_vars

\* C6: the headerId of every message published to the robot, orders and
\* instant actions alike, is greater than that of the message before it.
C6_HeadersIncrease == g.mono

\* C7: when the timeout of the current mission ends while the mission is
\* RUNNING, the mission is FAILED with failure_reason "Mission timed out" and
\* the robot is IDLE.
C7_TimeoutFails ==
    [][\A i \in AgentIds, m \in Missions :
          /\ TimerFires(i, m)
          /\ agents[i].current_mission = m
          /\ agents[i].mobj[m].status.state = "RUNNING"
          /\ agents[i].robot_object.lifecycle # "NONE"
          => /\ store'.missions[m].lifecycle # "NONE"
             /\ store'.missions[m].status.state = "FAILED"
             /\ store'.missions[m].status.failure_reason = "Mission timed out"
             /\ store'.robot.state = "IDLE"]_vars

\* C8: a mission that becomes the current one was received before every
\* mission still queued, and when the current mission reaches a terminal
\* state while a feedback is handled, the same handling sets the robot IDLE
\* and starts the oldest queued mission.
Position(seq, x) == CHOOSE k \in 1..Len(seq) : seq[k] = x

Elements(seq) == {seq[k] : k \in 1..Len(seq)}

StartsOldest(i) ==
    agents'[i].current_mission # agents[i].current_mission
    /\ agents'[i].current_mission # 0
    => \A k \in Elements(agents'[i].missions) :
          Position(g.received', agents'[i].current_mission)
             <= Position(g.received', k)

AdvancesOnCompletion(i) ==
    LET m == agents[i].current_mission
        rest == Remove(agents[i].missions, m)
    IN /\ HandlesFeedback(i)
       /\ m # 0
       /\ ~IsDone(agents[i].mobj[m].status.state)
       /\ IsDone(agents'[i].mobj[m].status.state)
       => IF rest = <<>>
          THEN agents'[i].current_mission = 0 /\ store'.robot.state = "IDLE"
          ELSE /\ agents'[i].current_mission = Head(rest)
               /\ store'.missions[Head(rest)].status.state = "RUNNING"
               /\ store'.robot.state = "ON_TASK"

C8_OneAtATime ==
    [][\A i \in AgentIds : StartsOldest(i) /\ AdvancesOnCompletion(i)]_vars

\* C9: the handling of a request that rewrites a RUNNING route leaf of the
\* current mission publishes a cancelOrder; the handling of the feedback
\* that reports that cancelOrder FINISHED publishes an order for the leaf
\* with the new waypoints; and between the two neither the leaf nor the
\* mission becomes COMPLETED.
PublishedNow == SubSeq(toRobot', Len(toRobot) + 1, Len(toRobot'))

CancelsOnRewrite(i) ==
    \A n \in 1..MaxNodes :
       Handles(i) /\ Rewrites(World(i), Head(agents[i].messages), n)
       => \E k \in 1..Len(PublishedNow) :
             /\ PublishedNow[k].type = "instantActions"
             /\ PublishedNow[k].actionType = "cancelOrder"
             /\ PublishedNow[k].mission = agents[i].current_mission

ReordersOnAck(i) ==
    \A x \in g.awaiting :
       /\ HandlesFeedback(i)
       /\ agents[i].current_mission = x[1]
       /\ ReportsCancel(World(i), Head(agents[i].messages), x[1])
       => \E k \in 1..Len(PublishedNow) :
             /\ PublishedNow[k].type = "order"
             /\ PublishedNow[k].mission = x[1]
             /\ PublishedNow[k].node = x[2]
             /\ PublishedNow[k].size = agents'[i].mobj[x[1]].mission_tree[x[2]].size

NotCompletedMeanwhile ==
    \A x \in g.awaiting :
       Exists(x[1]) /\ store'.missions[x[1]].lifecycle # "NONE"
       => /\ store'.missions[x[1]].status.node_status[x[2]] = "COMPLETED"
             => store.missions[x[1]].status.node_status[x[2]] = "COMPLETED"
          /\ store'.missions[x[1]].status.state = "COMPLETED"
             => StateOf(x[1]) = "COMPLETED"

C9_RewriteReorders ==
    [][/\ \A i \in AgentIds : CancelsOnRewrite(i) /\ ReordersOnAck(i)
       /\ NotCompletedMeanwhile]_vars

\* C10: when the sleep of the heartbeat task ends, online is false in the
\* store; the handling of a feedback leaves online true in the store.
C10_Heartbeat ==
    [][\A i \in AgentIds :
          agents[i].robot_object.lifecycle \notin {"NONE", "DELETED"}
          /\ store.robot.lifecycle # "NONE"
          => /\ HeartbeatFires(i) => ~store'.robot.online
             /\ HandlesFeedback(i) => store'.robot.online]_vars

\* the children of node p of a mission tree, p = 0 being the root
ChildrenOf(mt, p) ==
    {n \in NodeIds(mt) :
        mt[n].parent = p
        /\ mt[n].kind \in {"sequence", "route", "constant", "selector", "action"}}

IsSequence(mt, p) == p = 0 \/ mt[p].kind = "sequence"

StoredNodes(m) == store.missions[m].status.node_status

FoldHolds(mt, ns, p) ==
    IF IsSequence(mt, p)
    THEN /\ ns[p] = "COMPLETED" <=> \A c \in ChildrenOf(mt, p) : ns[c] = "COMPLETED"
         /\ ns[p] = "FAILED" <=> \E c \in ChildrenOf(mt, p) : ns[c] = "FAILED"
    ELSE /\ ns[p] = "COMPLETED" <=> \E c \in ChildrenOf(mt, p) : ns[c] = "COMPLETED"
         /\ ns[p] = "FAILED" <=> \A c \in ChildrenOf(mt, p) : ns[c] = "FAILED"

\* the behaviour tree has driven mission m to COMPLETED or FAILED
TreeEnded(m) ==
    /\ Exists(m)
    /\ StateOf(m) \in {"COMPLETED", "FAILED"}
    /\ store.missions[m].status.failure_reason # "Mission timed out"

\* C12: in a mission the behaviour tree has ended, the stored status of the
\* root and of every control node is the fold of the statuses of its
\* children, and the state of the mission is the status of the root.
C12_Fold ==
    \A m \in Missions :
       TreeEnded(m) =>
         /\ StoredNodes(m)[0] = StateOf(m)
         /\ \A p \in 0..Len(store.missions[m].mission_tree) :
               p = 0 \/ store.missions[m].mission_tree[p].kind \in {"sequence", "selector"}
               => FoldHolds(store.missions[m].mission_tree, StoredNodes(m), p)

\* a mission has ended FAILED under a selector whose children all failed
C12_Witness ==
    \E m \in Missions :
       /\ TreeEnded(m) /\ StateOf(m) = "FAILED"
       /\ \E p \in 1..Len(store.missions[m].mission_tree) :
             /\ store.missions[m].mission_tree[p].kind = "selector"
             /\ \A c \in ChildrenOf(store.missions[m].mission_tree, p) :
                   StoredNodes(m)[c] = "FAILED"

\* the world after agent i has handled the first message of its queue, and
\* after it has handled the second as well, if its run loop goes on
Once(i) ==
    Handle([World(i) EXCEPT !.a.messages = Tail(@)], Head(agents[i].messages))

Twice(i) ==
    IF Once(i).a.alive /\ ~Once(i).a.crashed
    THEN Handle([Once(i) EXCEPT !.a.messages = Tail(@)], agents[i].messages[2])
    ELSE Once(i)

\* the same state message is first and second in the queue of agent i
DeliveredTwice(i) ==
    /\ agents[i].spawned /\ agents[i].alive /\ ~agents[i].crashed
    /\ Len(agents[i].messages) >= 2
    /\ agents[i].messages[1].type = "state"
    /\ agents[i].messages[2] = agents[i].messages[1]

\* C13: handling the same state message twice in succession leaves the
\* store and the mission queue of the agent as handling it once does.
C13_Idempotent ==
    \A i \in AgentIds :
       DeliveredTwice(i) =>
         /\ Twice(i).store = Once(i).store
         /\ Twice(i).a.missions = Once(i).a.missions

\* the messages published to the robot in this step
NewlyPublished ==
    IF Len(toRobot') > Len(toRobot)
    THEN {toRobot'[k] : k \in (Len(toRobot) + 1)..Len(toRobot')}
    ELSE {}

\* agent i holds the robot in state TELEOP before and after the step
InTeleop(i) ==
    /\ agents[i].robot_object.lifecycle # "NONE"
    /\ agents[i].robot_object.state = "TELEOP"
    /\ agents'[i].robot_object.state = "TELEOP"

PoseFollows(i) ==
    HandlesFeedback(i) /\ ~agents'[i].crashed =>
        store'.robot.pose = Head(agents[i].messages).obj.agvPosition

\* C14: while the robot is in state TELEOP the agent publishes no order,
\* and each feedback it handles still updates the stored pose of the robot.
C14_TeleopSilent ==
    [][\A i \in AgentIds :
          InTeleop(i) /\ agents'[i] # agents[i] =>
              /\ \A msg \in NewlyPublished : msg.type # "order"
              /\ PoseFollows(i)]_vars

C14_PoseOnly ==
    [][\A i \in AgentIds :
          InTeleop(i) /\ agents'[i] # agents[i] => PoseFollows(i)]_vars

\* the robot has been created in the store and no agent has its object yet
BeforeRobotEvent ==
    /\ store.robot.lifecycle = "ALIVE"
    /\ watch.robot # <<>>
    /\ \A i \in AgentIds : agents[i].robot_object.lifecycle = "NONE"

\* a state message the robot publishes now ends in the queue of an agent
FeedbackQueued ==
    \E i \in AgentIds :
       Len(Feedback(agents, sim)[i].messages) > Len(agents[i].messages)

\* C15: a feedback that arrives before the robot event of its robot is not
\* lost: it is queued at an agent (spawned if there is none) and stays
\* queued until the agent holds the robot object.
C15_FeedbackHeld ==
    /\ [](BeforeRobotEvent /\ CanFeedback => FeedbackQueued)
    /\ [][\A i \in AgentIds :
            HandlesFeedback(i) => agents[i].robot_object.lifecycle # "NONE"]_vars

C15_HeldByAgent ==
    [][\A i \in AgentIds :
          HandlesFeedback(i) => agents[i].robot_object.lifecycle # "NONE"]_vars

\* agent i builds the behaviour tree of mission m in this step
Starts(i, m) ==
    /\ agents'[i].tree.built /\ agents'[i].tree.mission = m
    /\ ~(agents[i].tree.built /\ agents[i].tree.mission = m)

\* agent i holds an ALIVE robot and mission m is its only current mission
MayStart(i, m) ==
    /\ agents'[i].robot_object.lifecycle = "ALIVE"
    /\ agents'[i].current_mission = m
    /\ \/ agents[i].current_mission \in {0, m}
       \/ ~InSeq(agents'[i].missions, agents[i].current_mission)

\* mission m gets its first order, or its stored state leaves PENDING for
\* RUNNING, in this step
FirstOrder(m) == m \notin g.ordered /\ m \in g'.ordered

SetRunning(m) ==
    /\ Exists(m) /\ StateOf(m) = "PENDING"
    /\ store'.missions[m].lifecycle # "NONE"
    /\ store'.missions[m].status.state = "RUNNING"

\* agent i has mission m, which nobody cancelled, and has not seen a robot
\* object
WaitsForRobot(i, m) ==
    /\ agents[i].spawned
    /\ agents[i].robot_object.lifecycle = "NONE"
    /\ InSeq(agents[i].missions, m)
    /\ ~store.missions[m].needs_canceled

\* agent i handles the event of an ALIVE robot, its first, with missions
RobotArrives(i) ==
    /\ Handles(i)
    /\ Head(agents[i].messages).type = "robot"
    /\ Head(agents[i].messages).obj.lifecycle = "ALIVE"
    /\ agents[i].robot_object.lifecycle = "NONE"
    /\ agents[i].current_mission # 0

\* C16: a mission is started (tree built, first order published, state set
\* RUNNING) only by an agent that holds an ALIVE robot object and has no
\* other current mission; a mission received before the robot object stays
\* PENDING without an order and is started when the robot event arrives.
C16_StartNeedsRobot ==
    [][/\ \A i \in AgentIds, m \in Missions :
            /\ Starts(i, m) => MayStart(i, m)
            /\ agents'[i] # agents[i] /\ (FirstOrder(m) \/ SetRunning(m))
                 => Starts(i, m)
            /\ WaitsForRobot(i, m) /\ Exists(m)
                 => StateOf(m) = "PENDING" /\ m \notin g.ordered
       /\ \A i \in AgentIds :
            RobotArrives(i) =>
               /\ Starts(i, agents[i].current_mission)
               /\ FirstOrder(agents[i].current_mission)
               /\ store'.missions[agents[i].current_mission].status.state
                    = "RUNNING"]_vars

\* a mission that waited for the robot object has been started by its event
C16_Witness ==
    \E i \in AgentIds, m \in Missions :
       /\ agents[i].tree.built /\ agents[i].tree.mission = m
       /\ agents[i].robot_object.lifecycle = "ALIVE"
       /\ Exists(m) /\ StateOf(m) = "RUNNING" /\ m \in g.ordered
       /\ g.received # <<>> /\ g.received[1] = m
       /\ Len(agents[i].missions) = 2

\* agent i runs mission m: it is its current mission and its tree is built
Runs(i, m) ==
    /\ agents[i].current_mission = m
    /\ agents[i].tree.built /\ agents[i].tree.mission = m

\* agent i handles the event that tells it that the mission it runs is
\* PENDING_DELETE
LearnsDelete(i, m) ==
    /\ Handles(i)
    /\ Head(agents[i].messages).type = "mission"
    /\ Head(agents[i].messages).name = m
    /\ Head(agents[i].messages).obj.lifecycle = "PENDING_DELETE"
    /\ Runs(i, m)
    /\ InSeq(agents[i].missions, m)
    /\ ~IsDone(agents[i].mobj[m].status.state)

CancelPublished(m) ==
    \E msg \in NewlyPublished :
       msg.type = "instantActions" /\ msg.actionType = "cancelOrder"
       /\ msg.mission = m

\* C17: a mission that becomes PENDING_DELETE while it is the current mission
\* is cancelled on the robot, keeps lifecycle PENDING_DELETE in the store and
\* is removed from the store only once its state is terminal.
C17_DeleteWhenTerminal ==
    [][\A m \in Missions :
          /\ store.missions[m].lifecycle = "PENDING_DELETE"
               => store'.missions[m].lifecycle \in {"NONE", "PENDING_DELETE"}
          /\ \A i \in AgentIds :
               /\ LearnsDelete(i, m) /\ ~agents'[i].crashed => CancelPublished(m)
               /\ /\ Runs(i, m)
                  /\ store.missions[m].lifecycle = "PENDING_DELETE"
                  /\ store'.missions[m].lifecycle = "NONE"
                  /\ agents'[i] # agents[i]
                  => IsDone(agents'[i].mobj[m].status.state)]_vars

\* agent i handles the event that tells it that mission m of its queue,
\* not its current mission, is PENDING_DELETE
DropsNow(i, m) ==
    /\ Handles(i)
    /\ Head(agents[i].messages).name = m
    /\ DropsQueued(World(i), Head(agents[i].messages))

\* the current mission of agent i is as it was before the step
CurrentUntouched(i) ==
    /\ agents'[i].current_mission = agents[i].current_mission
    /\ agents'[i].tree = agents[i].tree
    /\ agents'[i].timers = agents[i].timers
    /\ agents[i].current_mission # 0 =>
         /\ store'.missions[agents[i].current_mission]
              = store.missions[agents[i].current_mission]
         /\ agents'[i].mobj[agents[i].current_mission]
              = agents[i].mobj[agents[i].current_mission]
    /\ NewlyPublished = {}

\* C18: the step that handles the PENDING_DELETE event of a queued mission
\* removes the mission from the queue of the agent and from the store and
\* leaves the current mission as it was; no order is ever published for a
\* mission dropped this way.
C18_QueuedDelete ==
    [][/\ \A i \in AgentIds, m \in Missions :
            DropsNow(i, m) =>
               /\ ~agents'[i].crashed
               /\ ~InSeq(agents'[i].missions, m)
               /\ store'.missions[m].lifecycle = "NONE"
               /\ CurrentUntouched(i)
       /\ \A msg \in NewlyPublished :
            msg.type = "order" => msg.mission \notin g'.dropped]_vars

\* a queued mission was dropped while the current mission runs on
C18_Witness ==
    \E i \in AgentIds, m \in Missions :
       /\ m \in g.dropped
       /\ ~Exists(m)
       /\ ~InSeq(agents[i].missions, m)
       /\ agents[i].current_mission \notin {0, m}
       /\ Runs(i, agents[i].current_mission)
       /\ Exists(agents[i].current_mission)
       /\ StateOf(agents[i].current_mission) = "RUNNING"

\* the notify leaves of the tree mt whose endpoint answers within codes
NotifyLeaves(mt, codes) ==
    {n \in 1..Len(mt) : mt[n].kind = "notify" /\ mt[n].url \in codes}

\* C19: a mission with a notify leaf whose endpoint always answers with a
\* transient status ends FAILED with the leaf FAILED after exactly four
\* POSTs.
C19_NotifyGivesUp ==
    \A m \in Missions :
       TreeEnded(m) /\ NotifyLeaves(store.missions[m].mission_tree,
                                    TransientCodes) # {}
       => /\ StateOf(m) = "FAILED"
          /\ \A n \in NotifyLeaves(store.missions[m].mission_tree, TransientCodes) :
                StoredNodes(m)[n] = "FAILED"
          /\ g.posts[m] = NotifyRetries + 1

SuccessCodes == {c \in StatusCodes : c \in 200..299}

FinalCodes == StatusCodes \ (SuccessCodes \cup TransientCodes)

\* the state the claim expects of a notify leaf whose endpoint answers url
Notified(url) == IF url \in SuccessCodes THEN "COMPLETED" ELSE "FAILED"

\* C20: a notify leaf is COMPLETED when its POST is answered with a 2xx
\* status and FAILED after a single POST when the status is neither 2xx nor
\* transient: so the POST loop decides, and so the mission that has ended
\* shows it.
C20_NotifyOutcome ==
    \A m \in Missions :
       Exists(m) =>
          \A n \in NotifyLeaves(store.missions[m].mission_tree,
                                SuccessCodes \cup FinalCodes) :
             /\ NotifyLoop(store.missions[m].mission_tree[n].url, 0)
                  = [state |-> Notified(store.missions[m].mission_tree[n].url),
                     posts |-> 1]
             /\ TreeEnded(m) =>
                  /\ StoredNodes(m)[n]
                       = Notified(store.missions[m].mission_tree[n].url)
                  /\ g.posts[m] = 1

\* agent i is about to handle a feedback of the order of leaf
\* orderId.node of its current mission, which has not ended
FeedbackOfTip(i) ==
    /\ agents[i].spawned /\ agents[i].alive /\ ~agents[i].crashed
    /\ agents[i].messages # <<>>
    /\ Head(agents[i].messages).type = "state"
    /\ agents[i].current_mission # 0
    /\ agents[i].tree.built
    /\ agents[i].robot_object.lifecycle # "NONE"
    /\ ~IsDone(agents[i].mobj[agents[i].current_mission].status.state)
    /\ Head(agents[i].messages).obj.orderId.mission = agents[i].current_mission
    /\ Head(agents[i].messages).obj.orderId.node
          \in DOMAIN agents[i].mobj[agents[i].current_mission].mission_tree

\* the world after agent i has handled its next message with its errors
\* replaced by errors
WithErrors(i, errors) ==
    Handle([World(i) EXCEPT !.a.messages = Tail(@)],
           [Head(agents[i].messages) EXCEPT !.obj.errors = errors])

\* the status of the current mission of agent i before and after the agent
\* handles its next message
StatusBefore(i) == agents[i].mobj[agents[i].current_mission].status

StatusAfter(i) == Once(i).a.mobj[agents[i].current_mission].status

\* the leaves this feedback marks FAILED
MarkedFailed(i) ==
    {n \in DOMAIN agents[i].mobj[agents[i].current_mission].mission_tree :
        /\ ~IsComposite(agents[i].mobj[agents[i].current_mission].mission_tree, n)
        /\ StatusBefore(i).node_status[n] # "FAILED"
        /\ StatusAfter(i).node_status[n] = "FAILED"}

C21_WarningWitness ==
    \E i \in AgentIds :
       /\ FeedbackOfTip(i) /\ ~Once(i).a.crashed
       /\ Head(agents[i].messages).obj.errors # {}
       /\ \A e \in Head(agents[i].messages).obj.errors :
             e.errorLevel = "WARNING"
       /\ StatusAfter(i) # StatusBefore(i)

\* C22: the event loop of an agent never stops because of an error raised
\* while it handles an event: no handler of a robot event, a mission event
\* or a feedback raises out of the run loop, so an agent that has events
\* queued goes on to process them.
C22_LoopSurvives == \A i \in AgentIds : ~agents[i].crashed

\* the orders published in this step
OrdersNow == {msg \in NewlyPublished : msg.type = "order"}

\* the first leaf of mission m that was not COMPLETED in the store when the
\* dispatcher was restarted
FirstOpen(m) ==
    CHOOSE n \in 1..Len(store.missions[m].mission_tree) + 1 :
       /\ n <= Len(store.missions[m].mission_tree) => <<m, n>> \notin g.restart.completed
       /\ \A k \in 1..(n - 1) : <<m, k>> \in g.restart.completed

ListedNow == ~watch.client.listed /\ watch'.client.listed

\* the objects yielded for notifications, and the notifications not yet
\* read that do not carry the publisher_id of the subscription
Notified24 ==
    Cardinality({k \in 1..Len(watch.client.events) :
                    watch.client.events[k].publisher # "listing"})
    + Cardinality({k \in 1..Len(watch.client.notes) :
                      watch.client.notes[k].payload[1] # "own"})

\* C24: a watch subscription first delivers every object present in the
\* store; then every change committed since the subscription began that
\* was not written with the publisher_id of the subscription yields one
\* event, an object of the name that was written, none is missed; and no
\* change written with the publisher_id of the subscription is ever
\* delivered.
C24_Watch ==
    /\ [](/\ Notified24 = watch.client.changes
          /\ \A k \in 1..Len(watch.client.events) :
                /\ watch.client.events[k].publisher # "own"
                /\ watch.client.events[k].publisher = "listing" => k = 1
                /\ watch.client.events[k].name = watch.client.events[k].of)
    /\ [][ListedNow /\ store.robot.lifecycle # "NONE" =>
            /\ watch.client.events = <<>>
            /\ Len(watch'.client.events) = 1
            /\ watch'.client.events[1].name = store.robot.name
            /\ watch'.client.events[1].lifecycle = store.robot.lifecycle]_vars

\* the same for names without a space
C24_PlainNames ==
    /\ [](/\ Notified24 = watch.client.changes
          /\ \A k \in 1..Len(watch.client.events) :
                /\ watch.client.events[k].publisher # "own"
                /\ watch.client.events[k].publisher = "listing" => k = 1
                /\ Len(watch.client.events[k].of) = 1
                    => watch.client.events[k].name = watch.client.events[k].of)
    /\ [][ListedNow /\ store.robot.lifecycle # "NONE" =>
            /\ watch.client.events = <<>>
            /\ Len(watch'.client.events) = 1
            /\ watch'.client.events[1].name = store.robot.name
            /\ watch'.client.events[1].lifecycle = store.robot.lifecycle]_vars

\* C25: the order published for a route leaf of k >= 1 waypoints at index n
\* of mission m has orderId "m-n<n>" and orderUpdateId 0, k + 1 nodes of
\* sequenceIds 0, 2, .., 2k, the node of sequenceId 0 at the pose the agent
\* has of the robot, and k edges of sequenceIds 1, 3, .., 2k - 1, the edge
\* of sequenceId s starting at the node of sequenceId s - 1 and ending at
\* the node of sequenceId s + 1.
NodeOfSequence(o, s) ==
    {o.nodes[a].nodeId : a \in {b \in 1..Len(o.nodes) : o.nodes[b].sequenceId = s}}

RouteOrderShape(o, m, n, k) ==
    /\ o.orderId = <<m, n>>
    /\ o.orderUpdateId = 0
    /\ Len(o.nodes) = k + 1
    /\ {o.nodes[a].sequenceId : a \in 1..Len(o.nodes)} = {2 * j : j \in 0..k}
    /\ Len(o.edges) = k
    /\ {o.edges[e].sequenceId : e \in 1..Len(o.edges)} = {2 * j - 1 : j \in 1..k}
    /\ \A e \in 1..Len(o.edges) :
          /\ NodeOfSequence(o, o.edges[e].sequenceId - 1) = {o.edges[e].startNodeId}
          /\ NodeOfSequence(o, o.edges[e].sequenceId + 1) = {o.edges[e].endNodeId}

AtRobot(o, i) ==
    \A a \in 1..Len(o.nodes) :
       o.nodes[a].sequenceId = 0
       => /\ o.nodes[a].nodePosition.robot
          /\ o.nodes[a].nodePosition.pose = agents'[i].robot_object.pose

C25_RouteOrder ==
    [][\A i \in AgentIds, x \in 1..Len(PublishedNow) :
          /\ Handles(i)
          /\ PublishedNow[x].type = "order"
          /\ PublishedNow[x].size >= 1
          => /\ RouteOrderShape(PublishedNow[x].order, PublishedNow[x].mission,
                                PublishedNow[x].node, PublishedNow[x].size)
             /\ AtRobot(PublishedNow[x].order, i)]_vars

C25_Witness ==
    \E x \in 1..Len(toRobot) :
       /\ toRobot[x].type = "order"
       /\ toRobot[x].size = 2
       /\ Len(toRobot[x].order.edges) = 2
       /\ toRobot[x].order.nodes[1].nodePosition.pose # 0

\* The leaves of a mission whose children all hang under the root, in the
\* order of the mission tree: the first that is not done yet, 0 if none.
OpenLeaf(mission) ==
    LET open == {n \in 1..Len(mission.mission_tree) :
                    /\ mission.mission_tree[n].kind \in {"route", "notify", "action"}
                    /\ ~IsDone(mission.status.node_status[n])}
    IN IF open = {} THEN 0 ELSE CHOOSE n \in open : \A k \in open : n <= k

\* The tip of the behaviour tree: a step of an agent that moves the tip of its running mission to a
\* different leaf publishes the order for the new tip, or posts the
\* notification of a notify leaf, within that step.
TipLeaf(a) ==
    IF a.current_mission # 0 /\ a.tree.built /\ a.alive /\ ~a.crashed
    THEN LET n == TipOf([a |-> a])
         IN IF n >= 1 /\ a.tree.status[n] = "RUNNING"
               /\ a.mobj[a.current_mission].status.state = "RUNNING"
            THEN <<a.current_mission, n>> ELSE <<0, 0>>
    ELSE <<0, 0>>

TipServed(i, m, n) ==
    \/ \E x \in 1..Len(PublishedNow) :
          /\ PublishedNow[x].type = "order"
          /\ PublishedNow[x].mission = m /\ PublishedNow[x].node = n
    \/ /\ agents'[i].mobj[m].mission_tree[n].kind = "notify"
       /\ g'.posts[m] > g.posts[m]

TipOrdered ==
    [][\A i \in AgentIds :
          /\ TipLeaf(agents'[i]) # <<0, 0>>
          /\ TipLeaf(agents'[i]) # TipLeaf(agents[i])
          => TipServed(i, TipLeaf(agents'[i])[1], TipLeaf(agents'[i])[2])]_vars

\* C26: the handling of the feedback that completes a leaf of the current
\* mission serves the leaf the mission goes on with, within that step: it
\* publishes the order for it or, for a notify leaf, posts its notification.
C26_LeafServed ==
    [][\A i \in AgentIds :
          LET m == agents[i].current_mission IN
          /\ HandlesFeedback(i)
          /\ m # 0
          /\ store.missions[m].lifecycle # "NONE"
          /\ store'.missions[m].lifecycle # "NONE"
          /\ ~store'.missions[m].needs_canceled
          /\ OpenLeaf(store.missions[m]) # 0
          /\ store'.missions[m].status.node_status[OpenLeaf(store.missions[m])]
                = "COMPLETED"
          /\ OpenLeaf(store'.missions[m]) # 0
          => TipServed(i, m, OpenLeaf(store'.missions[m]))]_vars

\* The action states a feedback may carry for agent i: up to two states,
\* each of an outstanding instant action, RUNNING or FINISHED, or of an
\* action of the order.
OrderActionState ==
    [n |-> 1, mission |-> 1, actionType |-> "dock_robot", actionStatus |-> "FINISHED"]

ActionStatesFor(i) ==
    LET cia == agents[i].current_instant_actions
        one == {[mission |-> cia[x].mission, n |-> cia[x].n,
                 actionType |-> cia[x].actionType, actionStatus |-> st] :
                  x \in 1..Len(cia), st \in {"RUNNING", "FINISHED"}}
               \cup {OrderActionState}
    IN {<<>>} \cup {<<a>> : a \in one} \cup {<<a, b>> : a \in one, b \in one}

Occurs(ia, states) == \E x \in 1..Len(states) : ActionId(states[x]) = ia

OccursFinished(ia, states) ==
    \E x \in 1..Len(states) :
       ActionId(states[x]) = ia /\ states[x].actionStatus = "FINISHED"

Retransmits(w, w1, ia) ==
    \E x \in 1..Len(Published(w, w1)) :
       /\ Published(w, w1)[x].type = "instantActions"
       /\ Published(w, w1)[x].mission = ia.mission
       /\ Published(w, w1)[x].node = ia.n
       /\ Published(w, w1)[x].actionType = ia.actionType

AcksOf(i, states) ==
    LET w == World(i)
        w1 == handle_instant_action(w, [actionStates |-> states])
    IN \A x \in 1..Len(agents[i].current_instant_actions) :
          LET ia == agents[i].current_instant_actions[x] IN
          /\ ~Occurs(ia, states) => Retransmits(w, w1, ia)
          /\ OccursFinished(ia, states)
               => /\ ~InSeq(w1.a.current_instant_actions, ia)
                  /\ ~Retransmits(w, w1, ia)

\* C27: a feedback makes the agent retransmit every outstanding instant
\* action whose actionId its actionStates do not hold, and drop, without
\* retransmitting it, every outstanding instant action whose actionId they
\* hold with status FINISHED, at whatever place of actionStates.
C27_Acks ==
    \A i \in AgentIds :
       ~agents[i].crashed => \A states \in ActionStatesFor(i) : AcksOf(i, states)

\* the same for the feedbacks that hold states of instant actions only
AcksOfInstantStates ==
    \A i \in AgentIds :
       ~agents[i].crashed
       => \A states \in ActionStatesFor(i) :
             ~InSeq(states, OrderActionState) => AcksOf(i, states)

\* C28: the handling of a feedback whose orderId is not of the current
\* mission publishes the order for the current tip again and leaves the
\* mission as it was, in the store and in the agent, whatever errors and
\* action states the feedback carries: the state of the mission and of its
\* nodes, the failure reason and the error messages (the leaf that is
\* ordered again is RUNNING afterwards, as after every order).
OfOtherOrder(i) ==
    /\ agents[i].spawned /\ agents[i].alive /\ ~agents[i].crashed
    /\ agents[i].messages # <<>>
    /\ Head(agents[i].messages).type = "state"
    /\ agents[i].current_mission # 0
    /\ agents[i].tree.built
    /\ ~IsDone(agents[i].mobj[agents[i].current_mission].status.state)
    /\ Head(agents[i].messages).obj.orderId.mission # agents[i].current_mission

FatalFor(n) ==
    [errorLevel |-> "FATAL", node |-> n, errorDescription |-> "Failure period reached"]

\* the world after agent i has handled its next message with these errors
\* and action states
HandledWith(i, errors, states) ==
    Handle([World(i) EXCEPT !.a.messages = Tail(@)],
           [Head(agents[i].messages) EXCEPT !.obj.errors = errors,
                                            !.obj.actionStates = states])

OrderedAgain(i, w1) ==
    \E x \in 1..Len(Published(World(i), w1)) :
       /\ Published(World(i), w1)[x].type = "order"
       /\ Published(World(i), w1)[x].mission = agents[i].current_mission
       /\ Published(World(i), w1)[x].node = TipOf(World(i))

MissionUntouched(i, w1) ==
    LET m == agents[i].current_mission
        tip == TipOf(World(i))
    IN /\ w1.a.current_mission = m
       /\ w1.store.missions[m] = store.missions[m]
       /\ w1.a.mobj[m].status =
             [agents[i].mobj[m].status EXCEPT
                !.node_status = [n \in DOMAIN @ |->
                                   IF n = tip THEN "RUNNING" ELSE @[n]]]

WaypointsSent(m, n) == {x[3] : x \in {y \in g.sent : y[1] = m /\ y[2] = n}}

ReportsFinalNode(message, k) ==
    message.lastNodeId # "" /\ message.lastNodeSequenceId + 2 = 2 * k + 2

C29_RouteCompleted ==
    \A i \in AgentIds :
       FeedbackOfTip(i)
       => LET m == agents[i].current_mission
              message == Head(agents[i].messages).obj
              n == message.orderId.node
          IN \A k \in WaypointsSent(m, n) :
                /\ agents[i].mobj[m].mission_tree[n].kind = "route"
                /\ StatusBefore(i).node_status[n] # "COMPLETED"
                => (StatusAfter(i).node_status[n] = "COMPLETED"
                      <=> ReportsFinalNode(message, k))

\* C30: an agent that holds a mission with needs_canceled set publishes no
\* order for that mission.
C30_NoOrderOnceCanceled ==
    [][\A i \in AgentIds, m \in Missions :
          /\ agents[i].spawned /\ agents[i].alive /\ ~agents[i].crashed
          /\ agents'[i] # agents[i]
          /\ agents[i].mobj[m].lifecycle # "NONE"
          /\ agents[i].mobj[m].needs_canceled
          => \A x \in 1..Len(PublishedNow) :
                ~(PublishedNow[x].type = "order" /\ PublishedNow[x].mission = m)]_vars

\* C31: a mission that the store has in a terminal state and that an agent
\* no longer has in its queue is not put into the queue of that agent again
\* by any later event, and no order is published for it.
C31_AtMostOnce ==
    [][\A i \in AgentIds, m \in Missions :
          /\ agents[i].spawned /\ agents[i].alive /\ ~agents[i].crashed
          /\ Exists(m) /\ IsDone(StateOf(m))
          /\ ~InSeq(agents[i].missions, m)
          => /\ ~InSeq(agents'[i].missions, m)
             /\ \A x \in 1..Len(PublishedNow) :
                   ~(PublishedNow[x].type = "order" /\ PublishedNow[x].mission = m)]_vars

\* C32: an agent publishes a cancelOrder instant action, for the first time
\* or again, only while the mission the action was created for is its
\* current mission.
C32_CancelOfCurrent ==
    [][\A i \in AgentIds, x \in 1..Len(PublishedNow) :
          /\ agents'[i] # agents[i]
          /\ PublishedNow[x].type = "instantActions"
          /\ PublishedNow[x].actionType = "cancelOrder"
          => PublishedNow[x].mission = agents[i].current_mission]_vars

\* C33: after update_nodes was requested for a route leaf for which no order
\* had been published yet, no cancelOrder is published for the mission of
\* the leaf, and every order published for the leaf has the waypoints of
\* the request.
NoCancelFor(m) ==
    \A x \in 1..Len(PublishedNow) :
       ~(/\ PublishedNow[x].type = "instantActions"
         /\ PublishedNow[x].actionType = "cancelOrder"
         /\ PublishedNow[x].mission = m)

OrdersWith(m, n, size) ==
    \A x \in 1..Len(PublishedNow) :
       /\ PublishedNow[x].type = "order"
       /\ PublishedNow[x].mission = m /\ PublishedNow[x].node = n
       => PublishedNow[x].size = size

C33_UpdatePending ==
    [][\A r \in g.early : NoCancelFor(r[1]) /\ OrdersWith(r[1], r[2], r[3])]_vars

\* the same for the orders alone
OrdersUpdated ==
    [][\A r \in g.early : OrdersWith(r[1], r[2], r[3])]_vars


\* ------------------------------------------------------------------ C34
\* The mission tree of mission m, as the store holds it, has a node whose
\* parent has no behaviour: create_behavior_tree returns False.
Unbuilt(m) ==
    /\ Exists(m)
    /\ ~create_behavior_tree(m, store.missions[m].mission_tree).ok
    /\ ~create_behavior_tree(m, store.missions[m].mission_tree).bad

\* Agent i has started the mission it holds as current: a tree was built
\* for it, or it is none.
StartedCurrent(a) ==
    a.current_mission # 0 => a.tree.built /\ a.tree.mission = a.current_mission

NextWaits(i, k) ==
    /\ agents[i].spawned /\ agents[i].alive /\ ~agents[i].crashed
    /\ agents[i].robot_object.lifecycle = "ALIVE"
    /\ agents[i].current_mission # 0
    /\ agents[i].current_mission # k
    /\ IsDone(agents[i].mobj[agents[i].current_mission].status.state)
    /\ InSeq(agents[i].missions, k)
    /\ agents[i].mobj[k].status.state = "PENDING"

\* C35: a mission queued behind a current mission that has reached a
\* terminal state is eventually started, whether or not the robot sends
\* another state message.
C35_NextStarted ==
    \A i \in AgentIds, k \in Missions : NextWaits(i, k) ~> ~NextWaits(i, k)


\* ------------------------------------------------------------------ C36
\* Mission m was created and its row is gone.
Deleted(m) == m \in user.created /\ ~Exists(m)

\* Agent i has deleted mission m: the row is gone and the agent holds the
\* mission in a state that is not terminal (the watcher deletes only rows
\* whose state is terminal, and the agent writes every state it holds).
DeletedBy(i, m) ==
    /\ agents[i].spawned /\ agents[i].alive /\ ~agents[i].crashed
    /\ Deleted(m)
    /\ ~IsDone(agents[i].mobj[m].status.state)

\* C36: a mission the agent has deleted from the store is not the agent's
\* current mission, so that the agent writes no status of it again.
C36_DeletedNotCurrent ==
    \A i \in AgentIds, m \in Missions :
        DeletedBy(i, m) => agents[i].current_mission # m


\* ------------------------------------------------------------------ C37
\* The status of a robot object: the fields only the agent writes.
StatusOf(robot) == <<robot.state, robot.online, robot.pose>>

\* C37: the handling of a robot event for a robot the agent knows leaves
\* the agent's robot status as the agent last wrote it: the status of the
\* event, a row read before that write, does not replace it.
C37_StatusKept ==
    [][\A i \in AgentIds :
          /\ Handles(i)
          /\ Head(agents[i].messages).type = "robot"
          /\ Head(agents[i].messages).obj.lifecycle = "ALIVE"
          /\ agents[i].robot_object.lifecycle = "ALIVE"
          /\ agents'[i].robot_object.lifecycle = "ALIVE"
          /\ ~agents'[i].crashed
          => StatusOf(agents'[i].robot_object) = StatusOf(agents[i].robot_object)]_vars


\* ------------------------------------------------------------------ C38
\* Agent i runs a mission: its current mission is in state RUNNING.
RunsMission(a) ==
    a.current_mission # 0 /\ a.mobj[a.current_mission].status.state = "RUNNING"

\* C38: between the handlers of a running agent that knows its robot, the
\* stored state of the robot is ON_TASK exactly when the agent's current
\* mission is RUNNING, unless the robot is in TELEOP.
C38_OnTaskIffRunning ==
    \A i \in AgentIds :
        /\ agents[i].spawned /\ agents[i].alive /\ ~agents[i].crashed
        /\ reg = i
        /\ agents[i].robot_object.lifecycle = "ALIVE"
        /\ store.robot.lifecycle = "ALIVE"
        /\ store.robot.state # "TELEOP"
        => (store.robot.state = "ON_TASK" <=> RunsMission(agents[i]))


\* ------------------------------------------------------------------ C39
\* C39: the current mission of a running agent, if any, is the first entry
\* of the agent's queue, and every other queued mission is PENDING and has
\* had no order published.
C39_QueueShape ==
    \A i \in AgentIds :
        agents[i].spawned /\ agents[i].alive /\ ~agents[i].crashed
        => /\ agents[i].current_mission # 0
               => /\ agents[i].missions # <<>>
                  /\ Head(agents[i].missions) = agents[i].current_mission
           /\ \A x \in 1..Len(agents[i].missions) :
                  agents[i].missions[x] # agents[i].current_mission
                  => /\ agents[i].mobj[agents[i].missions[x]].status.state = "PENDING"
                     /\ agents[i].missions[x] \notin g.ordered


\* ------------------------------------------------------------------ C40
\* C40: a step of the agent on a mission it knows keeps the kind and the
\* parent of every node of the mission, and changes the waypoints of route
\* nodes only.
C40_KindsKept ==
    [][\A i \in AgentIds, m \in Missions :
          /\ agents'[i] # agents[i]
          /\ agents[i].mobj[m].lifecycle # "NONE"
          /\ agents'[i].mobj[m].lifecycle # "NONE"
          => \A n \in DOMAIN agents[i].mobj[m].mission_tree :
                /\ n \in DOMAIN agents'[i].mobj[m].mission_tree
                /\ agents'[i].mobj[m].mission_tree[n].kind
                       = agents[i].mobj[m].mission_tree[n].kind
                /\ agents'[i].mobj[m].mission_tree[n].parent
                       = agents[i].mobj[m].mission_tree[n].parent
                /\ agents[i].mobj[m].mission_tree[n].kind # "route"
                    => agents'[i].mobj[m].mission_tree[n].size
                          = agents[i].mobj[m].mission_tree[n].size]_vars

====
